---- MODULE Spec2Model ----
(***************************************************************************)
(* A model of the actor runtime: the actor base class (lifecycle, topic   *)
(* dispatch, forwarding, child registry) over a small tree of actors, and  *)
(* the forked actor endpoint (envelopes, pending responses, timeouts).     *)
(*                                                                         *)
(* Spec         : the lifecycle of the actor tree (createChild, initialize, *)
(*                destroy) with send / sendAndReceive calls.                *)
(* SpecDispatch : topic dispatch and forwarding among in-memory actors.    *)
(* SpecForked   : one forked proxy and its peer over a message bus.        *)
(* SpecMarshal  : the argument encoding of the forked transport.           *)
(* SpecTree     : named children, destroy, and tree() / metrics().         *)
(* SpecForward  : forwardToChild while child creations are pending.        *)
(* SpecPeer     : requests in both directions between the proxy and its    *)
(*                peer, with handlers that throw or defer.                 *)
(* SpecOrder    : the order of the envelopes of successive send calls.     *)
(* SpecCreate   : createChild on actors of every state.                    *)
(* SpecRemote   : the creation of remote actors and clusters.              *)
(* SpecResources: the initialization of resources and their dependencies.  *)
(* SpecSystem   : the destroy of the actor system and the signals.         *)
(* SpecDefault  : the default actor system of the module.                  *)
(* SpecHandshake: the control envelopes and the destroy handshake of a     *)
(*                forked actor.                                            *)
(* SpecPending  : requests that are pending while the handshake runs.      *)
(* SpecListener : the listener of an endpoint over envelopes of any origin.*)
(* SpecIds      : the ids and the waiters of both endpoints.               *)
(* SpecHooks    : children whose initialize fails.                         *)
(* SpecServer   : the listening server and its control connections.        *)
(* SpecEmitter  : the event listeners registered through a proxy.          *)
(***************************************************************************)
EXTENDS Integers, Sequences, FiniteSets, TLC

VARIABLES
  \* ---- actor tree (class Actor) ----
  state,              \* Actor.state of every actor object ("none": not constructed)
  childPromises,      \* Actor.childPromises: the children, in insertion order
  childPromise,       \* the state of the promise createChild returned for an actor
  forwardList,        \* Actor.forwardList: sequence of <<matcher, target>>
  forwardAllUnknown,  \* Actor.forwardAllUnknown (NoActor: not set)
  destroyPromise,     \* Actor.destroyPromise: "unset", "pending", "resolved", "rejected"
  destroyMap,         \* the array P.map iterates in destroy(): childPromises at the call
  destroyMapped,      \* the children whose mapper (child.destroy()) has been invoked
  destroyStep,        \* position in destroy()'s promise chain
  destroyList,        \* history: the order in which the behaviours' destroy hooks fired
  lastCall            \* the send / sendAndReceive made in the last step, with its outcome

treeVars == <<state, childPromises, childPromise, forwardList, forwardAllUnknown,
              destroyPromise, destroyMap, destroyMapped, destroyStep, destroyList,
              lastCall>>

VARIABLES
  \* ---- forked proxy (class ForkedActor) and its peer ----
  proxyState,         \* Actor.state of the proxy
  initializePromise,  \* the proxy's initialize(): "idle", "pending", "resolved"
  proxyDestroy,       \* the proxy's destroyPromise: "unset", "pending", "resolved"
  listening,          \* ForkedActor.listening
  busListener,        \* whether the bus has the proxy's 'message' listener
  peerAlive,          \* whether the peer process runs
  idCounter,          \* ForkedActor.idCounter
  responsePromises,   \* ForkedActor.responsePromises: the msgIds with a pending entry
  timeouts,           \* ForkedActor.timeouts: sequence of [timeout, msgId]
  now,                \* _.now() (clock ticks)
  toPeer,             \* envelopes in flight from the proxy to the peer
  toProxy,            \* envelopes in flight from the peer to the proxy
  calls               \* history: the calls made on the proxy and their promises

forkedVars == <<proxyState, initializePromise, proxyDestroy, listening, busListener,
                peerAlive, idCounter, responsePromises, timeouts, now, toPeer,
                toProxy, calls>>

VARIABLES
  \* ---- actor tree, continued ----
  name,               \* Actor.name of every actor object
  forwardCall,        \* the forwardToChild call whose P.all(childPromises) is awaited
  lastCreate,         \* the last createChild call observed, with its outcome
  \* ---- the proxy's marshalling and the peer endpoint (a ForkedActor as well) ----
  marshalling,        \* the calls (indices of calls) whose P.map of the message is pending
  peerIdCounter,      \* ForkedActor.idCounter of the peer endpoint
  peerResponsePromises, \* ForkedActor.responsePromises of the peer endpoint
  peerCalls,          \* history: the requests the peer made to the parent actor
  peerHandling,       \* the responses of the peer that await a handler's deferred result
  responded           \* history: the ids of the responses the peer handed to the bus

moreTreeVars == <<name, forwardCall, lastCreate>>
moreForkedVars == <<marshalling, peerIdCounter, peerResponsePromises, peerCalls,
                    peerHandling, responded>>

VARIABLES
  \* ---- the actor system (class ActorSystem): creation of remote actors ----
  config,             \* ActorSystem.config: the configured options of the actor's name
  remoteOptions,      \* the options of the createActor call under observation
  createActorCalls,   \* the createActor calls whose promise chain has not run yet
  remoteActors,       \* the actor objects constructed, in the order of construction
  createError         \* the error a createActor call was rejected with, None if none

remoteVars == <<config, remoteOptions, createActorCalls, remoteActors, createError>>

VARIABLES
  \* ---- the actor system: resources ----
  inject,             \* the inject() list of every resource definition class
  resourceDefPromises, \* ActorSystem.resourceDefPromises, with the dependency path of each
  requested,          \* history: the resources named in inject lists of actor definitions
  instantiated        \* history: for every resource, how often it was constructed and
                      \* initialized

resourceVars == <<inject, resourceDefPromises, requested, instantiated>>

VARIABLES
  \* ---- the actor system: destroy and the termination signals ----
  systemMode,         \* ActorSystem.options.mode: "none" (not a child system), "forked", "remote"
  server,             \* whether listen() has made ActorSystem.server
  destroying,         \* ActorSystem.destroying
  systemDestroyPromise, \* ActorSystem.destroyPromise: "unset", "pending", "resolved", "rejected"
  destroyChain,       \* the position in the promise chain of ActorSystem.destroy
  destroySteps,       \* history: the steps of the chain that have been performed
  signalListeners,    \* the signals for which the process has the system's listener
  received,           \* history: the signal the process has received, "none" before
  exited              \* how the process has exited, "running" while it has not

lifecycleVars == <<systemMode, server, destroying, systemDestroyPromise, destroyChain,
                   destroySteps, signalListeners, received, exited>>

VARIABLES
  \* ---- the actor system: the default system of the module ----
  defaultSystem,      \* the module's variable defaultSystem (NoSystem: undefined)
  systems,            \* the number of ActorSystem objects constructed; they are 1..systems
  defaultReturns      \* history: the values the calls of ActorSystem.default() returned

defaultVars == <<defaultSystem, systems, defaultReturns>>

VARIABLES
  \* ---- the control envelopes of a forked actor and its destroy handshake ----
  requests,           \* history: the control requests of the proxy and their waiters
  peerListener,       \* whether the bus of the peer has the peer's 'message' listener
  peerOperations,     \* the tree() / metrics() of the peer whose result is awaited
  wrappedDestroy,     \* destroyPromise of the actor the peer wraps
  destroyAwaited,     \* the ids of the destroy-actor envelopes that await that promise
  peerSystem,         \* the system of the peer: "running" or "destroying"
  timeoutWorkerInterval, \* whether the interval of the proxy's timeout worker is set
  lastReceiveTimestamp,  \* ForkedActor.lastReceiveTimestamp of each endpoint (-1: undefined)
  handshake           \* history: the steps of the destroy handshake

controlVars == <<requests, peerListener, peerOperations, wrappedDestroy, destroyAwaited,
                 peerSystem, timeoutWorkerInterval, lastReceiveTimestamp, handshake>>

VARIABLES
  \* ---- the listening server of a system (ActorSystem.listen) ----
  serverPromise,      \* whether ActorSystem.serverPromise is set
  netServers,         \* the number of net servers created
  listenCalls,        \* history: the number of calls of listen()
  sockets,            \* the control connections of the server, in order of connection
  \* ---- the events of an actor behind a ForkedActorProxy ----
  listeners,          \* the listeners of the wrapped actor, in order of registration
  invocations,        \* history: for every listener, how many times it was invoked
  emitted             \* history: the number of events the wrapped actor emitted

serverVars == <<serverPromise, netServers, listenCalls, sockets>>

emitterVars == <<listeners, invocations, emitted>>

VARIABLES
  \* ---- envelopes of any origin at the listener of the proxy ----
  delivered,          \* history: how many envelopes the bus delivered besides the peer's
  dispatches          \* history: the actors the listener dispatched an actor-message to

listenerVars == <<delivered, dispatches>>

VARIABLES
  \* ---- the errors of failed creations ----
  childError          \* for every actor, the error its createChild promise was rejected with

hookVars == <<childError>>

moreSystemVars == <<controlVars, listenerVars, serverVars, emitterVars, hookVars>>

\* What the operations of a forked endpoint leave alone.
notEndpointVars == <<treeVars, moreTreeVars, remoteVars, resourceVars, lifecycleVars,
                     defaultVars, serverVars, emitterVars, hookVars>>
notForkedVars == <<notEndpointVars, listenerVars>>

systemVars == <<remoteVars, resourceVars, lifecycleVars, defaultVars, moreSystemVars>>

vars == <<treeVars, forkedVars, moreTreeVars, moreForkedVars, systemVars>>

\* null / undefined: for an error or a string, and for an actor reference.
None == "none"
NoActor == 0 - 1

-----------------------------------------------------------------------------
(* Bounds of the model.                                                    *)

\* Actors 0..MaxActor; 0 is the root actor, actor a > 0 is a child of a \div 2.
MaxActor == 3
\* Total number of entries in all forward lists.
MaxForward == 2

Actors == 0..MaxActor
Root == 0
parentOf(a) == a \div 2

\* The mode of each actor: actor 3 is a forked proxy, the others are in-memory.
getMode(a) == IF a = 3 THEN "forked" ELSE "in-memory"

Topics == {"plus", "mathTimes", "hello"}

\* The behaviour definitions: the topics each actor has a handler for.
definition(a) ==
  CASE a = 1 -> {"plus", "mathTimes"}
    [] a = 2 -> {"plus", "hello"}
    [] a = 3 -> {"hello", "sorry", "oops", "later"}
    [] OTHER -> {}

\* Whether the handler returns a deferred value (a promise resolved later):
\* later: n => P.delay(...).return(...).
HandlerDeferred(a, topic) == a = 3 /\ topic = "later"

\* The message of the error a handler throws, None for a handler that returns:
\* sorry: () => { throw new Error('Sorry!') }, oops: () => { throw new Error() }.
HandlerError(a, topic) ==
  CASE a = 3 /\ topic = "sorry" -> "Sorry!"
    [] a = 3 /\ topic = "oops" -> ""
    [] OTHER -> None

\* Argument lists of a call (variadic).
ArgLists == {<<2>>, <<2, 3>>}

\* Topic matchers of forward lists: strings and regular expressions.
Str(s) == [isRegExp |-> FALSE, text |-> s]
RegExp(s) == [isRegExp |-> TRUE, text |-> s]
Matchers == {Str("plus"), Str("hello"), RegExp("^math")}

\* topic.match(re): the topics of the model the regular expression matches.
RegExpMatch(re, topic) ==
  CASE re = "^math" -> topic \in {"mathTimes"}
    [] OTHER -> FALSE

-----------------------------------------------------------------------------
(* Errors.                                                                 *)

ErrNotInitialized == "Actor has not yet been initialized."
ErrCrashed == "Actor crashed, no interaction possible."
ErrDestroyCalled == "destroy() has been called for this actor, no further interaction possible"
ErrCannotAccept == "Actor cannot accept messages, because it is in this state."
ErrNoHandler == "No handler for message"
ErrStack == "Maximum call stack size exceeded"
ErrTimedOut == "Response timed out."
ErrTypeError == "Cannot read property '0' of undefined"
ErrChannelClosed == "channel closed"

\* A variant of _notReadyErrorPromise without the case of the crashed state.
_notReadyErrorPromiseNoCrashed(s) ==
  CASE s = "new" -> ErrNotInitialized
    [] s \in {"destroying", "destroyed"} -> ErrDestroyCalled
    [] OTHER -> ErrCannotAccept

\* Actor._notReadyErrorPromise: the rejection for an actor in state s.
_notReadyErrorPromise(s) ==
  CASE s = "new" -> ErrNotInitialized
    [] s = "crashed" -> ErrCrashed
    [] s \in {"destroying", "destroyed"} -> ErrDestroyCalled
    [] OTHER -> ErrCannotAccept

-----------------------------------------------------------------------------
(* Topic dispatch: Actor.send / Actor.sendAndReceive.                      *)

\* The value the handler of actor a for a topic returns for the given arguments,
\* and the value undefined.
HandlerReturn(a, topic, args) == [kind |-> "return", actor |-> a, topic |-> topic, args |-> args]
Undefined == [kind |-> "undefined"]

\* The outcome of a call: whether the returned promise resolved, its value or
\* error, and which actor's handler or transport was invoked with which arguments.
Outcome(ok, value, error, by, how, args) ==
  [ok |-> ok, value |-> value, error |-> error, by |-> by, how |-> how, args |-> args]
Rejected(error) == Outcome(FALSE, Undefined, error, NoActor, "none", <<>>)


\* Whether a forward-list matcher matches a topic (the callback of _.find).
MatcherMatches(fwTopic, topic) ==
  IF fwTopic.isRegExp THEN RegExpMatch(fwTopic.text, topic) ELSE fwTopic.text = topic

\* _.find(this.forwardList, ...): the index of the first matching entry, 0 if none.
FindForward(a, topic) ==
  LET hits == {i \in 1..Len(forwardList[a]) : MatcherMatches(forwardList[a][i][1], topic)}
  IN IF hits = {} THEN 0 ELSE CHOOSE i \in hits : \A j \in hits : i <= j

\* A variant of _checkForward that forwards unknown topics to the parent whether
\* or not forwardToParent(true) was called.
_checkForwardUnknownToParent(a, topic) ==
  IF a # Root /\ topic \notin definition(a) THEN parentOf(a)
  ELSE IF FindForward(a, topic) # 0 THEN forwardList[a][FindForward(a, topic)][2]
  ELSE NoActor

\* A variant of _checkForward that forwards every topic to forwardAllUnknown once
\* it is set, whether or not the behaviour has a handler.
_checkForwardAllToParent(a, topic) ==
  IF forwardAllUnknown[a] # NoActor THEN forwardAllUnknown[a]
  ELSE IF FindForward(a, topic) # 0 THEN forwardList[a][FindForward(a, topic)][2]
  ELSE NoActor

\* Actor._checkForward: the actor to forward the topic to, or null.  Unknown
\* topics go to forwardAllUnknown before the forward list is searched.
_checkForward(a, topic) ==
  IF forwardAllUnknown[a] # NoActor /\ topic \notin definition(a) THEN forwardAllUnknown[a]
  ELSE IF FindForward(a, topic) # 0 THEN forwardList[a][FindForward(a, topic)][2]
  ELSE NoActor

\* InMemoryActor.send0 / sendAndReceive0: the behaviour's handler for the topic
\* runs with the arguments; a topic without handler fails.  The error of a
\* handler is the outcome of sendAndReceive0 and is only logged by send0.
InMemorySend0(a, topic, args, receive) ==
  IF topic \notin definition(a) THEN Rejected(ErrNoHandler)
  ELSE IF HandlerError(a, topic) = None
  THEN Outcome(TRUE, IF receive THEN HandlerReturn(a, topic, args) ELSE Undefined,
               None, a, "handler", args)
  ELSE IF receive
  THEN Outcome(FALSE, Undefined, HandlerError(a, topic), a, "handler", args)
  ELSE Outcome(TRUE, Undefined, None, a, "handler", args)

\* ForkedActor.send0 / sendAndReceive0: the message goes to the transport.
ForkedSend0(a, topic, args, receive) ==
  Outcome(TRUE, Undefined, None, a, "transport", args)

send0(a, topic, args, receive) ==
  IF getMode(a) = "forked" THEN ForkedSend0(a, topic, args, receive)
  ELSE InMemorySend0(a, topic, args, receive)

RECURSIVE send(_, _, _, _, _)

\* A variant of send that passes only the first argument on to send0.
sendDropsArguments(a, topic, args, receive, visited) ==
  IF state[a] # "ready" THEN Rejected(_notReadyErrorPromise(state[a]))
  ELSE LET fwActor == _checkForward(a, topic) IN
    IF fwActor # NoActor
    THEN IF fwActor \in visited \cup {a} THEN Rejected(ErrStack)
         ELSE send(fwActor, topic, args, receive, visited \cup {a})
    ELSE send0(a, topic, <<args[1]>>, receive)

\* A variant of send without the state check.
sendIgnoresState(a, topic, args, receive, visited) ==
  LET fwActor == _checkForward(a, topic) IN
    IF fwActor # NoActor
    THEN IF fwActor \in visited \cup {a} THEN Rejected(ErrStack)
         ELSE send(fwActor, topic, args, receive, visited \cup {a})
    ELSE send0(a, topic, args, receive)

\* Actor.send and Actor.sendAndReceive (receive = TRUE): the state check, the
\* forward check, then send0 / sendAndReceive0.  A forward target is called
\* through its own send / sendAndReceive; visited holds the actors already on
\* the call stack, a forwarding cycle overflows it.
send(a, topic, args, receive, visited) ==
  IF state[a] # "ready" THEN Rejected(_notReadyErrorPromise(state[a]))
  ELSE LET fwActor == _checkForward(a, topic) IN
    IF fwActor # NoActor
    THEN IF fwActor \in visited \cup {a} THEN Rejected(ErrStack)
         ELSE send(fwActor, topic, args, receive, visited \cup {a})
    ELSE send0(a, topic, args, receive)

-----------------------------------------------------------------------------
(* The actor tree: initial state and operations.                           *)

NoCall == [actor |-> NoActor]
\* No forwardToChild has been called.
NoForwardCall == [actor |-> NoActor, child |-> NoActor, topics |-> <<>>, all |-> <<>>,
                  status |-> "none"]

\* No createChild call has been observed.
NoCreate == [actor |-> NoActor, child |-> NoActor, error |-> None]

InitTree ==
  /\ state = [a \in Actors |-> IF a = Root THEN "ready" ELSE "none"]
  /\ childPromises = [a \in Actors |-> <<>>]
  /\ childPromise = [a \in Actors |-> IF a = Root THEN "resolved" ELSE "none"]
  /\ forwardList = [a \in Actors |-> <<>>]
  /\ forwardAllUnknown = [a \in Actors |-> NoActor]
  /\ destroyPromise = [a \in Actors |-> "unset"]
  /\ destroyMap = [a \in Actors |-> <<>>]
  /\ destroyMapped = [a \in Actors |-> {}]
  /\ destroyStep = [a \in Actors |-> "idle"]
  /\ destroyList = <<>>
  /\ lastCall = NoCall
  /\ name = [a \in Actors |-> ""]
  /\ forwardCall = NoForwardCall
  /\ lastCreate = NoCreate

Range(seq) == {seq[i] : i \in 1..Len(seq)}

\* _.without(array, value)
Without(seq, value) == SelectSeq(seq, LAMBDA x : x # value)

RECURSIVE SumLen(_, _)
SumLen(f, S) ==
  IF S = {} THEN 0
  ELSE LET a == CHOOSE x \in S : TRUE IN Len(f[a]) + SumLen(f, S \ {a})

\* ActorSystem._actorName of a plain-object behaviour: the name of its type.
_actorName == "Object"

\* Actor.createChild(behaviour, {name: optionsName}): allowed in state new or
\* ready; the child is constructed in state new with options.name or the name
\* of its behaviour, its promise is pushed to childPromises and its initialize
\* starts.
createChildWithOptions(a, c, optionsName) ==
  /\ c # Root /\ parentOf(c) = a
  /\ state[c] = "none"
  /\ state[a] \in {"new", "ready"}
  /\ state' = [state EXCEPT ![c] = "new"]
  /\ name' = [name EXCEPT ![c] = IF optionsName # "" THEN optionsName ELSE _actorName]
  /\ childPromises' = [childPromises EXCEPT ![a] = Append(@, c)]
  /\ childPromise' = [childPromise EXCEPT ![c] = "pending"]
  /\ UNCHANGED <<forwardList, forwardAllUnknown, destroyPromise, destroyMap,
                 destroyMapped, destroyStep, destroyList, forwardCall, lastCreate>>
  /\ lastCall' = NoCall
  /\ UNCHANGED <<forkedVars, moreForkedVars, systemVars>>

\* Actor.createChild(behaviour), without options.
createChild(a, c) == createChildWithOptions(a, c, "")

\* A variant of createChild whose state check lets a destroying actor pass.
createChildCallWhileDestroying(a, optionsName) ==
  /\ state[a] # "none"
  /\ IF state[a] \notin {"new", "ready", "destroying"}
     THEN /\ lastCreate' = [actor |-> a, child |-> NoActor,
                            error |-> _notReadyErrorPromise(state[a])]
          /\ UNCHANGED <<treeVars, name, forwardCall>>
     ELSE \E c \in Actors :
            /\ c # Root /\ parentOf(c) = a /\ state[c] = "none"
            /\ state' = [state EXCEPT ![c] = "new"]
            /\ name' = [name EXCEPT ![c] = IF optionsName # "" THEN optionsName ELSE _actorName]
            /\ childPromises' = [childPromises EXCEPT ![a] = Append(@, c)]
            /\ childPromise' = [childPromise EXCEPT ![c] = "pending"]
            /\ lastCreate' = [actor |-> a, child |-> c, error |-> None]
            /\ lastCall' = NoCall
            /\ UNCHANGED <<forwardList, forwardAllUnknown, destroyPromise, destroyMap,
                           destroyMapped, destroyStep, destroyList, forwardCall>>
  /\ UNCHANGED <<forkedVars, moreForkedVars, systemVars>>

\* Actor.createChild(behaviour, {name: optionsName}) with its outcome: an actor
\* that is neither new nor ready returns its not-ready rejection at once; else
\* the next child c is constructed and its promise pushed.
createChildCall(a, optionsName) ==
  /\ state[a] # "none"
  /\ IF state[a] \notin {"new", "ready"}
     THEN /\ lastCreate' = [actor |-> a, child |-> NoActor,
                            error |-> _notReadyErrorPromise(state[a])]
          /\ UNCHANGED <<treeVars, name, forwardCall>>
     ELSE \E c \in Actors :
            /\ c # Root /\ parentOf(c) = a /\ state[c] = "none"
            /\ state' = [state EXCEPT ![c] = "new"]
            /\ name' = [name EXCEPT ![c] = IF optionsName # "" THEN optionsName ELSE _actorName]
            /\ childPromises' = [childPromises EXCEPT ![a] = Append(@, c)]
            /\ childPromise' = [childPromise EXCEPT ![c] = "pending"]
            /\ lastCreate' = [actor |-> a, child |-> c, error |-> None]
            /\ lastCall' = NoCall
            /\ UNCHANGED <<forwardList, forwardAllUnknown, destroyPromise, destroyMap,
                           destroyMapped, destroyStep, destroyList, forwardCall>>
  /\ UNCHANGED <<forkedVars, moreForkedVars, systemVars>>

\* The initialize of a child completes (InMemoryActor.initialize,
\* ForkedActor.initialize): the state becomes ready, then createChild's promise
\* resolves and the parent listens for the child's destroyed event.
initialize(c) ==
  /\ childPromise[c] = "pending"
  /\ state' = [state EXCEPT ![c] = "ready"]
  /\ childPromise' = [childPromise EXCEPT ![c] = "resolved"]
  /\ UNCHANGED <<childPromises, forwardList, forwardAllUnknown, destroyPromise,
                 destroyMap, destroyMapped, destroyStep, destroyList>>
  /\ lastCall' = NoCall
  /\ UNCHANGED <<forkedVars, moreTreeVars, moreForkedVars, systemVars>>

\* The initialize of a child fails: createChild's catch removes the promise from
\* childPromises and rejects.  A destroy() of the parent that is mapping over
\* this promise is rejected by P.map.
initializeFails(c) ==
  /\ childPromise[c] = "pending"
  /\ childPromise' = [childPromise EXCEPT ![c] = "rejected"]
  /\ childPromises' = [childPromises EXCEPT ![parentOf(c)] = Without(@, c)]
  /\ IF destroyStep[parentOf(c)] = "map" /\ c \in Range(destroyMap[parentOf(c)])
     THEN /\ destroyPromise' = [destroyPromise EXCEPT ![parentOf(c)] = "rejected"]
          /\ destroyStep' = [destroyStep EXCEPT ![parentOf(c)] = "failed"]
     ELSE UNCHANGED <<destroyPromise, destroyStep>>
  /\ UNCHANGED <<state, forwardList, forwardAllUnknown, destroyMap, destroyMapped,
                 destroyList>>
  /\ lastCall' = NoCall
  /\ UNCHANGED <<forkedVars, moreTreeVars, moreForkedVars, systemVars>>

\* The errors an initialize hook fails with.
HookErrors == {"Hook failed.", ErrNotInitialized}

\* The behaviours: the initialize hook of an actor below the root that has a
\* child returns the promise of the createChild it calls, that of any other
\* actor awaits no child.
InitializeAwaits(p) ==
  LET below == {c \in Actors : c # Root /\ p # Root /\ parentOf(c) = p} IN
  IF below = {} THEN NoActor ELSE CHOOSE c \in below : TRUE

InitHooks == childError = [c \in Actors |-> None]

\* A variant of initializeRejects that leaves the promise in childPromises.
initializeRejectsKeepsChild(c, err) ==
  /\ childPromise[c] = "pending"
  /\ childPromise' = [childPromise EXCEPT ![c] = "rejected"]
  /\ childError' = [childError EXCEPT ![c] = err]
  /\ IF destroyStep[parentOf(c)] = "map" /\ c \in Range(destroyMap[parentOf(c)])
     THEN /\ destroyPromise' = [destroyPromise EXCEPT ![parentOf(c)] = "rejected"]
          /\ destroyStep' = [destroyStep EXCEPT ![parentOf(c)] = "failed"]
     ELSE UNCHANGED <<destroyPromise, destroyStep>>
  /\ UNCHANGED <<state, childPromises, forwardList, forwardAllUnknown, destroyMap,
                 destroyMapped, destroyList>>
  /\ lastCall' = NoCall
  /\ UNCHANGED <<forkedVars, moreTreeVars, moreForkedVars, remoteVars, resourceVars,
                 lifecycleVars, defaultVars, controlVars, listenerVars, serverVars,
                 emitterVars>>

\* The initialize of a child is rejected with an error, as initializeFails:
\* .tap(actor => actor.initialize()) rejects, createChild's catch removes the
\* promise from childPromises and rethrows the error, which is what the
\* promise of createChild is rejected with.
initializeRejects(c, err) ==
  /\ childPromise[c] = "pending"
  /\ childPromise' = [childPromise EXCEPT ![c] = "rejected"]
  /\ childError' = [childError EXCEPT ![c] = err]
  /\ childPromises' = [childPromises EXCEPT ![parentOf(c)] = Without(@, c)]
  /\ IF destroyStep[parentOf(c)] = "map" /\ c \in Range(destroyMap[parentOf(c)])
     THEN /\ destroyPromise' = [destroyPromise EXCEPT ![parentOf(c)] = "rejected"]
          /\ destroyStep' = [destroyStep EXCEPT ![parentOf(c)] = "failed"]
     ELSE UNCHANGED <<destroyPromise, destroyStep>>
  /\ UNCHANGED <<state, forwardList, forwardAllUnknown, destroyMap, destroyMapped,
                 destroyList>>
  /\ lastCall' = NoCall
  /\ UNCHANGED <<forkedVars, moreTreeVars, moreForkedVars, remoteVars, resourceVars,
                 lifecycleVars, defaultVars, controlVars, listenerVars, serverVars,
                 emitterVars>>

\* A variant of destroyCalls without the test of destroyPromise: every call
\* starts the destroy anew.
destroyCallsAnew(S) ==
  /\ state' = [a \in Actors |-> IF a \in S THEN "destroying" ELSE state[a]]
  /\ destroyPromise' = [a \in Actors |-> IF a \in S THEN "pending" ELSE destroyPromise[a]]
  /\ destroyMap' = [a \in Actors |-> IF a \in S THEN childPromises[a] ELSE destroyMap[a]]
  /\ destroyStep' = [a \in Actors |-> IF a \in S THEN "map" ELSE destroyStep[a]]

\* Actor.destroy() called on every actor of S that has no destroyPromise yet:
\* the state becomes destroying and P.map starts over the current childPromises.
destroyCalls(S) ==
  LET fresh == {a \in S : destroyPromise[a] = "unset"} IN
  /\ state' = [a \in Actors |-> IF a \in fresh THEN "destroying" ELSE state[a]]
  /\ destroyPromise' = [a \in Actors |-> IF a \in fresh THEN "pending" ELSE destroyPromise[a]]
  /\ destroyMap' = [a \in Actors |-> IF a \in fresh THEN childPromises[a] ELSE destroyMap[a]]
  /\ destroyStep' = [a \in Actors |-> IF a \in fresh THEN "map" ELSE destroyStep[a]]

\* Actor.destroy, called by a holder of the actor (createChild's promise has
\* resolved, or the actor is the root).
destroy(a) ==
  /\ childPromise[a] = "resolved"
  /\ destroyCalls({a})
  /\ UNCHANGED <<childPromises, childPromise, forwardList, forwardAllUnknown,
                 destroyMapped, destroyList>>
  /\ lastCall' = NoCall
  /\ UNCHANGED <<forkedVars, moreTreeVars, moreForkedVars, systemVars>>

\* A variant of destroyChildren that destroys the children one at a time, the
\* last inserted first, each after the destroy of the one before has settled.
destroyChildrenInReverse(a) ==
  LET ready == {c \in Range(destroyMap[a]) :
                  /\ childPromise[c] = "resolved" /\ c \notin destroyMapped[a]
                  /\ \A j, k \in 1..Len(destroyMap[a]) :
                       (destroyMap[a][j] = c /\ j < k)
                         => /\ destroyMap[a][k] \in destroyMapped[a]
                            /\ destroyPromise[destroyMap[a][k]] \in {"resolved", "rejected"}} IN
  /\ destroyStep[a] = "map"
  /\ ready # {}
  /\ destroyCalls(ready)
  /\ destroyMapped' = [destroyMapped EXCEPT ![a] = @ \cup ready]
  /\ UNCHANGED <<childPromises, childPromise, forwardList, forwardAllUnknown,
                 destroyList>>
  /\ lastCall' = NoCall
  /\ UNCHANGED <<forkedVars, moreTreeVars, moreForkedVars, systemVars>>

\* The mapper of P.map in destroy(): child.destroy() for the children whose
\* promise has resolved.
destroyChildren(a) ==
  LET ready == {c \in Range(destroyMap[a]) :
                  childPromise[c] = "resolved" /\ c \notin destroyMapped[a]} IN
  /\ destroyStep[a] = "map"
  /\ ready # {}
  /\ destroyCalls(ready)
  /\ destroyMapped' = [destroyMapped EXCEPT ![a] = @ \cup ready]
  /\ UNCHANGED <<childPromises, childPromise, forwardList, forwardAllUnknown,
                 destroyList>>
  /\ lastCall' = NoCall
  /\ UNCHANGED <<forkedVars, moreTreeVars, moreForkedVars, systemVars>>

\* .then(() => this.destroy0()): runs once the destroy of every child has
\* settled (a failed one is caught and logged); the behaviour's destroy hook
\* (or the transport's destroy) runs.
destroy0(a) ==
  /\ destroyStep[a] = "map"
  /\ \A c \in Range(destroyMap[a]) :
       c \in destroyMapped[a] /\ destroyPromise[c] \in {"resolved", "rejected"}
  /\ destroyList' = Append(destroyList, a)
  /\ \/ /\ destroyStep' = [destroyStep EXCEPT ![a] = "destroy0"]
        /\ UNCHANGED destroyPromise
     \/ \* destroy0 fails: the chain is rejected, the state stays destroying
        /\ destroyStep' = [destroyStep EXCEPT ![a] = "failed"]
        /\ destroyPromise' = [destroyPromise EXCEPT ![a] = "rejected"]
  /\ UNCHANGED <<state, childPromises, childPromise, forwardList, forwardAllUnknown,
                 destroyMap, destroyMapped>>
  /\ lastCall' = NoCall
  /\ UNCHANGED <<forkedVars, moreTreeVars, moreForkedVars, systemVars>>

\* A variant of destroyed in which the parent keeps the child's promise.
destroyedKeepsChild(a) ==
  /\ destroyStep[a] = "destroy0"
  /\ state' = [state EXCEPT ![a] = "destroyed"]
  /\ destroyPromise' = [destroyPromise EXCEPT ![a] = "resolved"]
  /\ destroyStep' = [destroyStep EXCEPT ![a] = "done"]
  /\ UNCHANGED <<childPromises, childPromise, forwardList, forwardAllUnknown, destroyMap,
                 destroyMapped, destroyList>>
  /\ lastCall' = NoCall
  /\ UNCHANGED <<forkedVars, moreTreeVars, moreForkedVars, systemVars>>

\* The last step of destroy(): the state becomes destroyed and the destroyed
\* event is emitted; the parent's listener removes the child from childPromises.
destroyed(a) ==
  /\ destroyStep[a] = "destroy0"
  /\ state' = [state EXCEPT ![a] = "destroyed"]
  /\ childPromises' = IF a = Root THEN childPromises
                      ELSE [childPromises EXCEPT ![parentOf(a)] = Without(@, a)]
  /\ destroyPromise' = [destroyPromise EXCEPT ![a] = "resolved"]
  /\ destroyStep' = [destroyStep EXCEPT ![a] = "done"]
  /\ UNCHANGED <<childPromise, forwardList, forwardAllUnknown, destroyMap,
                 destroyMapped, destroyList>>
  /\ lastCall' = NoCall
  /\ UNCHANGED <<forkedVars, moreTreeVars, moreForkedVars, systemVars>>

\* The peer of a forked proxy dies: ready -> crashed.
crash(a) ==
  /\ getMode(a) = "forked"
  /\ state[a] = "ready"
  /\ state' = [state EXCEPT ![a] = "crashed"]
  /\ UNCHANGED <<childPromises, childPromise, forwardList, forwardAllUnknown,
                 destroyPromise, destroyMap, destroyMapped, destroyStep, destroyList>>
  /\ lastCall' = NoCall
  /\ UNCHANGED <<forkedVars, moreTreeVars, moreForkedVars, systemVars>>

\* A call of send (receive = FALSE) or sendAndReceive (receive = TRUE) on an
\* actor object, by any holder of it (a child holds its parent from construction).
Call(a, topic, args, receive) ==
  /\ state[a] # "none"
  /\ lastCall' = [actor |-> a, topic |-> topic, args |-> args, receive |-> receive,
                  result |-> send(a, topic, args, receive, {})]
  /\ UNCHANGED <<state, childPromises, childPromise, forwardList, forwardAllUnknown,
                 destroyPromise, destroyMap, destroyMapped, destroyStep, destroyList>>
  /\ UNCHANGED <<forkedVars, moreTreeVars, moreForkedVars, systemVars>>

\* Actor.forwardToParent(...topics): one (topic, parent) entry per topic.
forwardToParent(a, topics) ==
  /\ a # Root /\ state[a] # "none"
  /\ SumLen(forwardList, Actors) + Len(topics) <= MaxForward
  /\ forwardList' = [forwardList EXCEPT
                       ![a] = @ \o [i \in 1..Len(topics) |-> <<topics[i], parentOf(a)>>]]
  /\ UNCHANGED <<state, childPromises, childPromise, forwardAllUnknown, destroyPromise,
                 destroyMap, destroyMapped, destroyStep, destroyList>>
  /\ lastCall' = NoCall
  /\ UNCHANGED <<forkedVars, moreTreeVars, moreForkedVars, systemVars>>

\* Actor.forwardToParent(true): all unknown topics go to the parent.
forwardToParentAll(a) ==
  /\ a # Root /\ state[a] # "none"
  /\ forwardAllUnknown' = [forwardAllUnknown EXCEPT ![a] = parentOf(a)]
  /\ UNCHANGED <<state, childPromises, childPromise, forwardList, destroyPromise,
                 destroyMap, destroyMapped, destroyStep, destroyList>>
  /\ lastCall' = NoCall
  /\ UNCHANGED <<forkedVars, moreTreeVars, moreForkedVars, systemVars>>

\* Actor.forwardToChild(childActor, ...topics): once all child promises have
\* resolved, one (topic, child) entry per topic if childActor is a child; an
\* error and no entry otherwise.
forwardToChild(a, childActor, topics) ==
  /\ state[a] # "none" /\ state[childActor] # "none"
  /\ \A c \in Range(childPromises[a]) : childPromise[c] = "resolved"
  /\ SumLen(forwardList, Actors) + Len(topics) <= MaxForward
  /\ forwardList' = [forwardList EXCEPT
                       ![a] = IF childActor \in Range(childPromises[a])
                              THEN @ \o [i \in 1..Len(topics) |-> <<topics[i], childActor>>]
                              ELSE @]
  /\ UNCHANGED <<state, childPromises, childPromise, forwardAllUnknown, destroyPromise,
                 destroyMap, destroyMapped, destroyStep, destroyList>>
  /\ lastCall' = NoCall
  /\ UNCHANGED <<forkedVars, moreTreeVars, moreForkedVars, systemVars>>

\* Actor.forwardToChild(childActor, ...topics) is called: P.all starts over the
\* current childPromises.
forwardToChildCall(a, childActor, topics) ==
  /\ state[a] # "none" /\ state[childActor] # "none"
  /\ forwardCall.status # "pending"
  /\ SumLen(forwardList, Actors) + Len(topics) <= MaxForward
  /\ forwardCall' = [actor |-> a, child |-> childActor, topics |-> topics,
                     all |-> childPromises[a], status |-> "pending"]
  /\ UNCHANGED <<treeVars, name, lastCreate>>
  /\ UNCHANGED <<forkedVars, moreForkedVars, systemVars>>

\* P.all(...) of forwardToChild settles: rejected as soon as one of the promises
\* is rejected; once all have resolved, one (topic, child) entry per topic is
\* pushed if childActor is among the children, and an error is thrown otherwise.
forwardToChildThen ==
  /\ forwardCall.status = "pending"
  /\ LET a == forwardCall.actor
         children == Range(forwardCall.all) IN
     \/ /\ \E c \in children : childPromise[c] = "rejected"
        /\ forwardCall' = [forwardCall EXCEPT !.status = "rejected"]
        /\ UNCHANGED forwardList
     \/ /\ \A c \in children : childPromise[c] = "resolved"
        /\ IF forwardCall.child \in children
           THEN /\ forwardList' = [forwardList EXCEPT
                                     ![a] = @ \o [i \in 1..Len(forwardCall.topics) |->
                                                   <<forwardCall.topics[i], forwardCall.child>>]]
                /\ forwardCall' = [forwardCall EXCEPT !.status = "resolved"]
           ELSE /\ forwardCall' = [forwardCall EXCEPT !.status = "rejected"]
                /\ UNCHANGED forwardList
  /\ UNCHANGED <<state, childPromises, childPromise, forwardAllUnknown, destroyPromise,
                 destroyMap, destroyMapped, destroyStep, destroyList, lastCall, name,
                 lastCreate>>
  /\ UNCHANGED <<forkedVars, moreForkedVars, systemVars>>

TopicLists == {<<m>> : m \in Matchers} \cup {<<Str("plus"), Str("hello")>>}

\* Actor._children: a copy of childPromises.
_children(a) == childPromises[a]

\* Whether every child promise below the actor has resolved: tree() and
\* metrics() wait for the promises of the children.
RECURSIVE ChildrenResolved(_)
ChildrenResolved(a) ==
  \A c \in Range(_children(a)) : childPromise[c] = "resolved" /\ ChildrenResolved(c)

\* Actor.tree: the hierarchy object of the actor, with the trees of its children.
RECURSIVE tree(_)
tree(a) ==
  [id |-> a, name |-> name[a],
   children |-> [k \in 1..Len(_children(a)) |-> tree(_children(a)[k])]]

\* The ids in a hierarchy object.
RECURSIVE TreeIds(_)
TreeIds(t) == {t.id} \cup UNION {TreeIds(t.children[k]) : k \in 1..Len(t.children)}

\* InMemoryActor.metrics0: the metric map the behaviour's metrics hook returns
\* (a new map at every call); the root has none.
metrics0(a) ==
  IF a = Root THEN <<>> ELSE [key \in {"childMetric"} |-> [value |-> 111 * a]]

\* memo[key] = value
Put(memo, key, value) == [k \in DOMAIN memo \cup {key} |-> IF k = key THEN value ELSE memo[k]]

RECURSIVE metrics(_)
RECURSIVE reduceMetrics(_, _)

\* A variant of metrics in which an entry that exists is not replaced.
metricsFirstEntryWins(a) ==
  LET RECURSIVE reduce(_, _)
      reduce(children, memo) ==
        IF children = <<>> THEN memo
        ELSE reduce(Tail(children),
                    IF name[Head(children)] \in DOMAIN memo THEN memo
                    ELSE Put(memo, name[Head(children)], metrics(Head(children))))
  IN reduce(_children(a), metrics0(a))

\* P.reduce(this._children(), (memo, child) => ..., ret) of Actor.metrics.
reduceMetrics(children, memo) ==
  IF children = <<>> THEN memo
  ELSE reduceMetrics(Tail(children),
                     Put(memo, name[Head(children)], metrics(Head(children))))

\* Actor.metrics: the own metric map, then for every child in order
\* memo[child.getName()] = the child's metrics().
metrics(a) == reduceMetrics(_children(a), metrics0(a))

InMemoryActors == {a \in Actors : getMode(a) = "in-memory"}

-----------------------------------------------------------------------------
(* The forked proxy (class ForkedActor) and its peer endpoint.             *)

\* Calls made on the proxy, and the ticks the clock runs for.
MaxCalls == 2
MaxNow == 3
\* Requests the peer makes to the parent actor.
MaxPeerCalls == 1

\* The proxy is the forked actor of the tree; its peer wraps the in-memory
\* actor with the same behaviour definition.
ProxyActor == CHOOSE a \in Actors : getMode(a) = "forked"

\* JavaScript values passed as arguments: numbers and arrays.
Num(n) == [kind |-> "num", n |-> n, items |-> <<>>]
Arr(items) == [kind |-> "arr", n |-> 0, items |-> items]
Truthy(v) == v.kind # "num" \/ v.n # 0
isArray(v) == v.kind = "arr"
\* A listening net.Server, an actor reference, and what they are sent as.
Server == [kind |-> "net.Server", n |-> 0, items |-> <<>>]
ActorRef == [kind |-> "actor", n |-> 0, items |-> <<>>]
HandleType == [kind |-> "handleType", n |-> 0, items |-> <<>>]
InterProcessReference == [kind |-> "InterProcessReference", n |-> 0, items |-> <<>>]
\* message.length == 1 && message[0] instanceof net.Server
IsServerHandle(message) == Len(message) = 1 /\ message[1] = Server
\* Whether a marshaller (of actor references) applies to a part of the message;
\* its marshall returns a promise.
NeedsMarshaller(message) == \E k \in 1..Len(message) : message[k] = ActorRef

\* Argument lists of the calls on the proxy.
Messages == {<<>>, <<Num(2)>>, <<Num(0)>>, <<Num(2), Num(3)>>, <<Arr(<<Num(1), Num(2)>>)>>}
ForkedTopics == {"hello", "mathTimes"}
\* options.timeout of _send0, in clock ticks (0: none).
Timeouts == {0, 1, 2}

\* ForkedActor._sendActorMessage: the body of the actor-message envelope.  A
\* server handle is replaced by its handleType.  No marshaller applies to
\* numbers and arrays, so marshalledTypes stays an empty array; a message of
\* one part is unwrapped, with marshalledTypes[0].
_sendActorMessage(topic, message, receive) ==
  IF IsServerHandle(message)
  THEN [topic |-> topic, message |-> HandleType, marshalledType |-> "undefined",
        receive |-> receive]
  ELSE IF Len(message) = 1 /\ message[1] = ActorRef
  THEN [topic |-> topic, message |-> InterProcessReference,
        marshalledType |-> "InterProcessReference", receive |-> receive]
  ELSE IF Len(message) = 1
  THEN [topic |-> topic, message |-> message[1], marshalledType |-> "undefined",
        receive |-> receive]
  ELSE [topic |-> topic, message |-> Arr(message), marshalledType |-> "array",
        receive |-> receive]

\* ForkedActor._decodeMessageBody: the arguments the handler is invoked with, or
\* the error of reading marshalledTypes[idx] of undefined.
_decodeMessageBody(body) ==
  LET falsy == ~Truthy(body.message)
      message1 == IF falsy THEN Arr(<<>>) ELSE body.message
      types1 == IF falsy THEN "array" ELSE body.marshalledType
      message2 == IF ~isArray(message1) THEN Arr(<<message1>>) ELSE message1
      types2 == IF ~isArray(message1) THEN "array" ELSE types1
  IN IF types2 = "undefined" /\ Len(message2.items) > 0
     THEN [ok |-> FALSE, message |-> <<>>, error |-> ErrTypeError]
     ELSE [ok |-> TRUE, message |-> message2.items, error |-> None]

\* if (body.error): whether the error text of a response body is truthy.
HasError(body) == body.error # None /\ body.error # ""

\* Envelopes.
ActorMessage(id, body) ==
  [type |-> "actor-message", id |-> id, actorId |-> ProxyActor, body |-> body]
ActorResponse(id, response) ==
  [type |-> "actor-response", id |-> id, actorId |-> ProxyActor,
   body |-> [response |-> response, error |-> None]]
\* ForkedActor._sendErrorResponse
_sendErrorResponse(msgId, errorText) ==
  [type |-> "actor-response", id |-> msgId, actorId |-> ProxyActor,
   body |-> [response |-> Undefined, error |-> errorText]]

\* A variant of PeerOnMessage that sends nothing back when the call fails.
PeerOnMessageSilentOnError(msg) ==
  IF msg.actorId # ProxyActor
  THEN <<_sendErrorResponse(msg.id, "Target actor ID doesn't match neither self nor parent")>>
  ELSE LET decoded == _decodeMessageBody(msg.body)
           result == InMemorySend0(ProxyActor, msg.body.topic, decoded.message,
                                   msg.body.receive)
       IN IF decoded.ok /\ result.ok /\ msg.body.receive
          THEN <<ActorResponse(msg.id, result.value)>>
          ELSE <<>>

\* The 'message' listener of the peer for an actor-message: the envelopes it
\* sends back.  The wrapped actor is ready and forwards nothing.
PeerOnMessage(msg) ==
  IF msg.actorId # ProxyActor
  THEN <<_sendErrorResponse(msg.id, "Target actor ID doesn't match neither self nor parent")>>
  ELSE LET decoded == _decodeMessageBody(msg.body)
           result == InMemorySend0(ProxyActor, msg.body.topic, decoded.message,
                                   msg.body.receive)
       IN IF ~decoded.ok THEN <<_sendErrorResponse(msg.id, decoded.error)>>
          ELSE IF ~result.ok THEN <<_sendErrorResponse(msg.id, result.error)>>
          ELSE IF msg.body.receive THEN <<ActorResponse(msg.id, result.value)>>
          ELSE <<>>

\* A variant of sortedIndex that yields the position after the last entry.
sortedIndexLast(array, timeout) == Len(array) + 1

\* _.sortedIndex(this.timeouts, timeoutObject, 'timeout'), as a 1-based position.
sortedIndex(array, timeout) ==
  1 + Cardinality({i \in 1..Len(array) : array[i].timeout < timeout})

\* array.splice(idx, 0, item), idx 1-based.
splice(array, idx, item) ==
  SubSeq(array, 1, idx - 1) \o <<item>> \o SubSeq(array, idx, Len(array))

\* The promise of a call: a record settled at most once.
NewCall(topic, message, receive, timeout, msgId, status, error) ==
  [topic |-> topic, message |-> message, receive |-> receive, timeout |-> timeout,
   msgId |-> msgId, status |-> status, value |-> Undefined, error |-> error]

\* respPromise.resolve / respPromise.reject for the pending entries ids.
Settle(cs, ids, status, value, error) ==
  [i \in 1..Len(cs) |->
     IF cs[i].msgId \in ids /\ cs[i].status = "pending"
     THEN [cs[i] EXCEPT !.status = status, !.value = value, !.error = error]
     ELSE cs[i]]

InitForked ==
  /\ proxyState = "new"
  /\ initializePromise = "idle"
  /\ proxyDestroy = "unset"
  /\ listening = FALSE
  /\ busListener = FALSE
  /\ peerAlive = TRUE
  /\ idCounter = 1
  /\ responsePromises = {}
  /\ timeouts = <<>>
  /\ now = 0
  /\ toPeer = <<>>
  /\ toProxy = <<>>
  /\ calls = <<>>
  /\ marshalling = <<>>
  /\ peerIdCounter = 1
  /\ peerResponsePromises = {}
  /\ peerCalls = <<>>
  /\ peerHandling = {}
  /\ responded = <<>>

\* ForkedActor.initialize is called (by createChild): the wrapped actor's
\* initialize(this) starts.
ForkedInitialize ==
  /\ initializePromise = "idle"
  /\ initializePromise' = "pending"
  /\ UNCHANGED <<proxyState, proxyDestroy, listening, busListener, peerAlive, idCounter,
                 responsePromises, timeouts, now, toPeer, toProxy, calls>>
  /\ UNCHANGED <<treeVars, moreTreeVars, moreForkedVars, systemVars>>

\* The continuation of ForkedActor.initialize: _setBus unless listening, then
\* the state is set to ready.
ForkedInitialized ==
  /\ initializePromise = "pending"
  /\ initializePromise' = "resolved"
  /\ listening' = TRUE
  /\ busListener' = IF listening THEN busListener ELSE TRUE
  /\ proxyState' = "ready"
  /\ UNCHANGED <<proxyDestroy, peerAlive, idCounter, responsePromises, timeouts, now,
                 toPeer, toProxy, calls>>
  /\ UNCHANGED <<treeVars, moreTreeVars, moreForkedVars, systemVars>>

\* Actor.destroy on the proxy, by a holder of it (the behaviour holds it from
\* initialize on): the first call sets the state to destroying.
ProxyDestroy ==
  /\ initializePromise # "idle"
  /\ proxyDestroy = "unset"
  /\ proxyDestroy' = "pending"
  /\ proxyState' = "destroying"
  /\ UNCHANGED <<initializePromise, listening, busListener, peerAlive, idCounter,
                 responsePromises, timeouts, now, toPeer, toProxy, calls>>
  /\ UNCHANGED <<treeVars, moreTreeVars, moreForkedVars, systemVars>>

\* The end of Actor.destroy's chain, after destroy0: the state is destroyed.
ProxyDestroyed ==
  /\ proxyDestroy = "pending"
  /\ proxyDestroy' = "resolved"
  /\ proxyState' = "destroyed"
  /\ UNCHANGED <<initializePromise, listening, busListener, peerAlive, idCounter,
                 responsePromises, timeouts, now, toPeer, toProxy, calls>>
  /\ UNCHANGED <<treeVars, moreTreeVars, moreForkedVars, systemVars>>

\* The state of the proxy after its bus emitted exit.
ExitState(s) == IF s = "ready" THEN "crashed" ELSE s

\* The peer process exits: the bus emits exit, the listener registered by
\* _setBus removes the 'message' listener; what was in flight is lost.
BusExit ==
  /\ peerAlive
  /\ peerAlive' = FALSE
  /\ busListener' = FALSE
  /\ proxyState' = ExitState(proxyState)
  /\ toPeer' = <<>>
  /\ toProxy' = <<>>
  /\ UNCHANGED <<initializePromise, proxyDestroy, listening, idCounter, responsePromises,
                 timeouts, now, calls>>
  /\ peerHandling' = {}
  /\ UNCHANGED <<marshalling, peerIdCounter, peerResponsePromises, peerCalls, responded>>
  /\ UNCHANGED <<treeVars, moreTreeVars, systemVars>>

\* A variant of AllocId that does not advance the counter.
AllocIdNoIncrement(counter) == [msgId |-> counter, idCounter |-> counter]

\* msg.id = msgId = this.idCounter++ in _send0: the id of the envelope and the
\* counter afterwards.
AllocId(counter) == [msgId |-> counter, idCounter |-> counter + 1]

\* ForkedActor._send0 on the proxy, for the envelope of the call at index i of
\* cs: the id is allocated, a request with receive gets its pending entry and,
\* with a timeout, its entry in the sorted timeouts; the envelope is handed to
\* the bus.
_send0(cs, i, body, timeout) ==
  LET alloc == AllocId(idCounter)
      msgId == alloc.msgId IN
  /\ idCounter' = alloc.idCounter
  /\ responsePromises' = IF body.receive THEN responsePromises \cup {msgId}
                         ELSE responsePromises
  /\ timeouts' = IF body.receive /\ timeout > 0
                 THEN splice(timeouts, sortedIndex(timeouts, now + timeout),
                             [timeout |-> now + timeout, msgId |-> msgId])
                 ELSE timeouts
  /\ IF peerAlive
     THEN /\ toPeer' = Append(toPeer, ActorMessage(msgId, body))
          /\ calls' = [cs EXCEPT ![i].msgId = msgId,
                                 ![i].status = IF body.receive THEN "pending" ELSE "resolved"]
     ELSE /\ toPeer' = toPeer
          /\ calls' = [cs EXCEPT ![i].msgId = msgId, ![i].status = "rejected",
                                 ![i].error = ErrChannelClosed]

\* Actor.send / Actor.sendAndReceive on the proxy: the state check, then
\* send0 / sendAndReceive0, _sendActorMessage and _send0 with its options, for
\* a message whose parts are marshalled before anything else happens.
ProxyCall(topic, message, receive, timeout) ==
  /\ initializePromise # "idle"
  /\ Len(calls) < MaxCalls
  /\ IF proxyState # "ready"
     THEN /\ calls' = Append(calls, NewCall(topic, message, receive, timeout, 0, "rejected",
                                            _notReadyErrorPromise(proxyState)))
          /\ UNCHANGED <<idCounter, responsePromises, timeouts, toPeer>>
     ELSE _send0(Append(calls, NewCall(topic, message, receive, timeout, 0, "marshalling",
                                        None)),
                 Len(calls) + 1, _sendActorMessage(topic, message, receive), timeout)
  /\ UNCHANGED <<proxyState, initializePromise, proxyDestroy, listening, busListener,
                 peerAlive, now, toProxy>>
  /\ UNCHANGED <<treeVars, moreTreeVars, moreForkedVars, systemVars>>

\* Actor.send / Actor.sendAndReceive on the proxy, up to where _sendActorMessage
\* suspends: a server handle goes to _send0 at once, any other message waits
\* for P.map over its parts.
ProxySend(topic, message, receive) ==
  /\ initializePromise # "idle"
  /\ Len(calls) < MaxCalls
  /\ LET cs == Append(calls, NewCall(topic, message, receive, 0, 0, "marshalling", None)) IN
     IF proxyState # "ready"
     THEN /\ calls' = Append(calls, NewCall(topic, message, receive, 0, 0, "rejected",
                                            _notReadyErrorPromise(proxyState)))
          /\ UNCHANGED <<idCounter, responsePromises, timeouts, toPeer, marshalling>>
     ELSE IF IsServerHandle(message)
     THEN /\ _send0(cs, Len(cs), _sendActorMessage(topic, message, receive), 0)
          /\ UNCHANGED marshalling
     ELSE /\ calls' = cs
          /\ marshalling' = Append(marshalling, Len(cs))
          /\ UNCHANGED <<idCounter, responsePromises, timeouts, toPeer>>
  /\ UNCHANGED <<proxyState, initializePromise, proxyDestroy, listening, busListener,
                 peerAlive, now, toProxy>>
  /\ UNCHANGED <<peerIdCounter, peerResponsePromises, peerCalls, peerHandling, responded>>
  /\ UNCHANGED <<treeVars, moreTreeVars, systemVars>>

\* The continuation of P.map in _sendActorMessage: the message of a call is
\* marshalled and goes to _send0.  Messages without marshaller complete in the
\* order of their calls; a marshaller takes its own time.
ProxyMarshalled(k) ==
  /\ k \in 1..Len(marshalling)
  /\ \/ NeedsMarshaller(calls[marshalling[k]].message)
     \/ \A j \in 1..(k - 1) : NeedsMarshaller(calls[marshalling[j]].message)
  /\ LET i == marshalling[k] IN
     _send0(calls, i, _sendActorMessage(calls[i].topic, calls[i].message, calls[i].receive), 0)
  /\ marshalling' = SubSeq(marshalling, 1, k - 1) \o SubSeq(marshalling, k + 1, Len(marshalling))
  /\ UNCHANGED <<proxyState, initializePromise, proxyDestroy, listening, busListener,
                 peerAlive, now, toProxy>>
  /\ UNCHANGED <<peerIdCounter, peerResponsePromises, peerCalls, peerHandling, responded>>
  /\ UNCHANGED <<treeVars, moreTreeVars, systemVars>>

\* Whether the peer's answer to an actor-message awaits a deferred result: the
\* message decodes and the handler that runs returns a promise.
PeerDefers(msg) ==
  /\ msg.actorId = ProxyActor
  /\ _decodeMessageBody(msg.body).ok
  /\ msg.body.topic \in definition(ProxyActor)
  /\ HandlerDeferred(ProxyActor, msg.body.topic)
  /\ msg.body.receive

\* The peer's 'message' listener handles the next actor-message: what it sends
\* back goes to the bus, once the handler's result is there.
PeerReceive ==
  /\ peerAlive
  /\ toPeer # <<>>
  /\ Head(toPeer).type = "actor-message"
  /\ toPeer' = Tail(toPeer)
  /\ LET out == PeerOnMessage(Head(toPeer)) IN
     IF PeerDefers(Head(toPeer))
     THEN /\ peerHandling' = peerHandling \cup Range(out)
          /\ UNCHANGED <<toProxy, responded>>
     ELSE /\ toProxy' = toProxy \o out
          /\ responded' = responded \o [k \in 1..Len(out) |-> out[k].id]
          /\ UNCHANGED peerHandling
  /\ UNCHANGED <<proxyState, initializePromise, proxyDestroy, listening, busListener,
                 peerAlive, idCounter, responsePromises, timeouts, now, calls>>
  /\ UNCHANGED <<marshalling, peerIdCounter, peerResponsePromises, peerCalls>>
  /\ UNCHANGED <<treeVars, moreTreeVars, systemVars>>

\* The deferred result of a handler of the peer is there: the response is sent.
PeerHandlerResolved ==
  /\ peerAlive
  /\ \E response \in peerHandling :
       /\ peerHandling' = peerHandling \ {response}
       /\ toProxy' = Append(toProxy, response)
       /\ responded' = Append(responded, response.id)
  /\ UNCHANGED <<proxyState, initializePromise, proxyDestroy, listening, busListener,
                 peerAlive, idCounter, responsePromises, timeouts, now, toPeer, calls>>
  /\ UNCHANGED <<marshalling, peerIdCounter, peerResponsePromises, peerCalls>>
  /\ UNCHANGED <<treeVars, moreTreeVars, systemVars>>

\* The peer endpoint sends a request to the parent actor: _sendActorMessage
\* with the parent's id as actorId and receive, through the peer's _send0.
PeerCall(topic, message) ==
  /\ peerAlive
  /\ initializePromise # "idle"
  /\ Len(peerCalls) < MaxPeerCalls
  /\ LET alloc == AllocId(peerIdCounter) IN
     /\ peerIdCounter' = alloc.idCounter
     /\ peerResponsePromises' = peerResponsePromises \cup {alloc.msgId}
     /\ toProxy' = Append(toProxy,
                          [type |-> "actor-message", id |-> alloc.msgId,
                           actorId |-> parentOf(ProxyActor),
                           body |-> _sendActorMessage(topic, message, TRUE)])
     /\ peerCalls' = Append(peerCalls, NewCall(topic, message, TRUE, 0, alloc.msgId,
                                               "pending", None))
  /\ UNCHANGED <<proxyState, initializePromise, proxyDestroy, listening, busListener,
                 peerAlive, idCounter, responsePromises, timeouts, now, toPeer, calls>>
  /\ UNCHANGED <<marshalling, peerHandling, responded>>
  /\ UNCHANGED <<treeVars, moreTreeVars, systemVars>>

\* The 'message' listener of the proxy for an actor-message of the peer: a
\* message to the parent's id is dispatched to the parent (ready, forwarding
\* nothing), the answer goes back with the id of the request.
ProxyOnMessage(msg) ==
  IF msg.actorId # ProxyActor /\ msg.actorId # parentOf(ProxyActor)
  THEN <<_sendErrorResponse(msg.id, "Target actor ID doesn't match neither self nor parent")>>
  ELSE LET decoded == _decodeMessageBody(msg.body)
           result == InMemorySend0(msg.actorId, msg.body.topic, decoded.message,
                                   msg.body.receive)
       IN IF ~decoded.ok THEN <<_sendErrorResponse(msg.id, decoded.error)>>
          ELSE IF ~result.ok THEN <<_sendErrorResponse(msg.id, result.error)>>
          ELSE IF msg.body.receive THEN <<ActorResponse(msg.id, result.value)>>
          ELSE <<>>

\* The proxy's 'message' listener handles an actor-message of the peer.
ProxyDispatch ==
  /\ busListener
  /\ toProxy # <<>>
  /\ Head(toProxy).type = "actor-message"
  /\ toProxy' = Tail(toProxy)
  /\ toPeer' = toPeer \o ProxyOnMessage(Head(toProxy))
  /\ UNCHANGED <<proxyState, initializePromise, proxyDestroy, listening, busListener,
                 peerAlive, idCounter, responsePromises, timeouts, now, calls>>
  /\ UNCHANGED <<treeVars, moreTreeVars, moreForkedVars, systemVars>>

\* The peer's 'message' listener handles an actor-response of the proxy.
PeerResponse ==
  /\ peerAlive
  /\ toPeer # <<>>
  /\ Head(toPeer).type = "actor-response"
  /\ LET msg == Head(toPeer) IN
     /\ toPeer' = Tail(toPeer)
     /\ IF msg.id \in peerResponsePromises
        THEN /\ peerResponsePromises' = peerResponsePromises \ {msg.id}
             /\ peerCalls' = IF HasError(msg.body)
                             THEN Settle(peerCalls, {msg.id}, "rejected", Undefined,
                                         msg.body.error)
                             ELSE Settle(peerCalls, {msg.id}, "resolved", msg.body.response,
                                         None)
        ELSE UNCHANGED <<peerResponsePromises, peerCalls>>
  /\ UNCHANGED <<proxyState, initializePromise, proxyDestroy, listening, busListener,
                 peerAlive, idCounter, responsePromises, timeouts, now, toProxy, calls>>
  /\ UNCHANGED <<marshalling, peerIdCounter, peerHandling, responded>>
  /\ UNCHANGED <<treeVars, moreTreeVars, systemVars>>

\* The proxy's 'message' listener handles an actor-response: the pending entry
\* is deleted and settled; a response without pending entry is logged only.
ProxyReceive ==
  /\ busListener
  /\ toProxy # <<>>
  /\ Head(toProxy).type = "actor-response"
  /\ LET msg == Head(toProxy) IN
     /\ toProxy' = Tail(toProxy)
     /\ IF msg.id \in responsePromises
        THEN /\ responsePromises' = responsePromises \ {msg.id}
             /\ calls' = IF HasError(msg.body)
                         THEN Settle(calls, {msg.id}, "rejected", Undefined, msg.body.error)
                         ELSE Settle(calls, {msg.id}, "resolved", msg.body.response, None)
        ELSE UNCHANGED <<responsePromises, calls>>
  /\ UNCHANGED <<proxyState, initializePromise, proxyDestroy, listening, busListener,
                 peerAlive, idCounter, timeouts, now, toPeer>>
  /\ UNCHANGED <<treeVars, moreTreeVars, moreForkedVars, systemVars>>

\* Time passes by one tick.  The interval of the timeout worker (1000 ms) is
\* several ticks long and its phase is arbitrary: the worker may run after any
\* tick, and need not.
Tick ==
  /\ now < MaxNow
  /\ now' = now + 1
  /\ UNCHANGED <<proxyState, initializePromise, proxyDestroy, listening, busListener,
                 peerAlive, idCounter, responsePromises, timeouts, toPeer, toProxy, calls>>
  /\ UNCHANGED <<treeVars, moreTreeVars, moreForkedVars, systemVars>>

\* A variant of Elapsed that leaves an entry whose deadline is the current time.
RECURSIVE ElapsedStrictly(_, _)
ElapsedStrictly(array, time) ==
  IF array # <<>> /\ array[1].timeout < time
  THEN 1 + ElapsedStrictly(Tail(array), time) ELSE 0

\* The number of leading entries of the timeouts whose deadline has passed
\* (the loop condition of the timeout worker).
RECURSIVE Elapsed(_, _)
Elapsed(array, time) ==
  IF array # <<>> /\ array[1].timeout <= time THEN 1 + Elapsed(Tail(array), time) ELSE 0

\* The timeout worker (setInterval): every leading entry whose deadline has
\* passed is shifted, its pending entry deleted and rejected.
TimeoutWorker ==
  LET n == Elapsed(timeouts, now)
      ids == {timeouts[i].msgId : i \in 1..n} IN
  /\ n > 0
  /\ timeouts' = SubSeq(timeouts, n + 1, Len(timeouts))
  /\ responsePromises' = responsePromises \ ids
  /\ calls' = Settle(calls, ids \cap responsePromises, "rejected", Undefined, ErrTimedOut)
  /\ UNCHANGED <<proxyState, initializePromise, proxyDestroy, listening, busListener,
                 peerAlive, idCounter, now, toPeer, toProxy>>
  /\ UNCHANGED <<treeVars, moreTreeVars, moreForkedVars, systemVars>>

-----------------------------------------------------------------------------
(* The control envelopes of a forked actor and its destroy handshake       *)
(* (ForkedActor._setBus); the requests are those of a forked actor parent. *)

\* Control requests the proxy makes besides destroy-actor.
MaxRequests == 1

\* An envelope without body.
NoBody == [response |-> Undefined, error |-> None]
Control(type, id, actorId) == [type |-> type, id |-> id, actorId |-> actorId, body |-> NoBody]

RequestTypes == {"actor-tree", "actor-metrics", "parent-ping"}

\* The waiter of a control request.
NewRequest(type, msgId, status, error) ==
  [type |-> type, msgId |-> msgId, status |-> status, value |-> Undefined, error |-> error]

InitControl ==
  /\ requests = <<>>
  /\ peerListener = TRUE
  /\ peerOperations = {}
  /\ wrappedDestroy = "unset"
  /\ destroyAwaited = <<>>
  /\ peerSystem = "running"
  /\ timeoutWorkerInterval = TRUE
  /\ lastReceiveTimestamp = [proxy |-> -1, peer |-> -1]
  /\ handshake = <<>>
  /\ delivered = 0
  /\ dispatches = <<>>

\* _send0({type: type}, {receive: true}) of the proxy: the id is allocated, the
\* waiter registered and the envelope handed to the bus.
SendRequest(type) ==
  LET alloc == AllocId(idCounter) IN
  /\ idCounter' = alloc.idCounter
  /\ responsePromises' = responsePromises \cup {alloc.msgId}
  /\ IF peerAlive
     THEN /\ toPeer' = Append(toPeer, Control(type, alloc.msgId, ProxyActor))
          /\ requests' = Append(requests, NewRequest(type, alloc.msgId, "pending", None))
     ELSE /\ toPeer' = toPeer
          /\ requests' = Append(requests, NewRequest(type, alloc.msgId, "rejected",
                                                     ErrChannelClosed))

\* tree(), metrics() or a ping of the forked actor parent.
ProxyRequest(type) ==
  /\ initializePromise # "idle"
  /\ Len(SelectSeq(requests, LAMBDA r : r.type # "destroy-actor")) < MaxRequests
  /\ SendRequest(type)
  /\ UNCHANGED <<proxyState, initializePromise, proxyDestroy, listening, busListener,
                 peerAlive, timeouts, now, toProxy, calls>>
  /\ UNCHANGED <<peerListener, peerOperations, wrappedDestroy, destroyAwaited, peerSystem,
                 timeoutWorkerInterval, lastReceiveTimestamp, handshake>>
  /\ UNCHANGED <<moreForkedVars, notForkedVars>>

\* destroy0 of the forked actor parent, in the chain of Actor.destroy: the
\* destroy-actor request.
ParentDestroy0 ==
  /\ proxyDestroy = "pending"
  /\ \A k \in 1..Len(requests) : requests[k].type # "destroy-actor"
  /\ SendRequest("destroy-actor")
  /\ UNCHANGED <<proxyState, initializePromise, proxyDestroy, listening, busListener,
                 peerAlive, timeouts, now, toProxy, calls>>
  /\ UNCHANGED <<peerListener, peerOperations, wrappedDestroy, destroyAwaited, peerSystem,
                 timeoutWorkerInterval, lastReceiveTimestamp, handshake>>
  /\ UNCHANGED <<moreForkedVars, notForkedVars>>

\* The end of the chain of Actor.destroy on the proxy, once destroy0 has
\* settled: destroyed, or the rejection of destroy().
ParentDestroyed ==
  /\ proxyDestroy = "pending"
  /\ \E k \in 1..Len(requests) :
       /\ requests[k].type = "destroy-actor"
       /\ requests[k].status # "pending"
       /\ proxyDestroy' = requests[k].status
       /\ proxyState' = IF requests[k].status = "resolved" THEN "destroyed" ELSE proxyState
  /\ UNCHANGED <<initializePromise, listening, busListener, peerAlive, idCounter,
                 responsePromises, timeouts, now, toPeer, toProxy, calls>>
  /\ UNCHANGED <<moreForkedVars, controlVars, notForkedVars>>

\* A variant of PeerControl that destroys the system of the peer on
\* destroy-actor, without waiting for the ack.
PeerControlDestroysAtOnce ==
  /\ peerAlive /\ peerListener
  /\ toPeer # <<>>
  /\ Head(toPeer).type \notin {"actor-message", "actor-response"}
  /\ LET msg == Head(toPeer) IN
     /\ toPeer' = Tail(toPeer)
     /\ lastReceiveTimestamp' = [lastReceiveTimestamp EXCEPT !.peer = now]
     /\ IF msg.type = "destroy-actor"
        THEN /\ peerListener' = FALSE
             /\ peerSystem' = "destroying"
             /\ handshake' = handshake \o <<"destroy-actor", "system.destroy">>
        ELSE UNCHANGED <<peerListener, peerSystem, handshake>>
     /\ UNCHANGED <<peerOperations, wrappedDestroy, destroyAwaited, toProxy, responded>>
  /\ UNCHANGED <<proxyState, initializePromise, proxyDestroy, listening, busListener,
                 peerAlive, idCounter, responsePromises, timeouts, now, calls>>
  /\ UNCHANGED <<marshalling, peerIdCounter, peerResponsePromises, peerCalls, peerHandling>>
  /\ UNCHANGED <<requests, timeoutWorkerInterval>>
  /\ UNCHANGED notForkedVars

\* The 'message' listener of the peer for an envelope that is no actor-message:
\* the timestamp is taken; an envelope without id or for another actor is
\* dropped; tree() and metrics() are started, the destroy of the wrapped actor
\* is called, the ack removes the listener and destroys the system, a ping is
\* answered by a pong.
PeerControl ==
  /\ peerAlive /\ peerListener
  /\ toPeer # <<>>
  /\ Head(toPeer).type \notin {"actor-message", "actor-response", "parent-pong"}
  /\ LET msg == Head(toPeer)
         handled == msg.id # 0 /\ msg.actorId = ProxyActor IN
     /\ toPeer' = Tail(toPeer)
     /\ lastReceiveTimestamp' = [lastReceiveTimestamp EXCEPT !.peer = now]
     /\ peerOperations' =
          IF handled /\ msg.type \in {"actor-tree", "actor-metrics"}
          THEN peerOperations \cup {[type |-> msg.type, id |-> msg.id]}
          ELSE peerOperations
     /\ IF handled /\ msg.type = "destroy-actor"
        THEN /\ wrappedDestroy' = IF wrappedDestroy = "unset" THEN "pending"
                                  ELSE wrappedDestroy
             /\ handshake' = Append(handshake, "destroy-actor")
             /\ IF wrappedDestroy = "resolved"
                THEN /\ toProxy' = Append(toProxy, Control("actor-destroyed", msg.id,
                                                           ProxyActor))
                     /\ responded' = Append(responded, msg.id)
                     /\ UNCHANGED destroyAwaited
                ELSE /\ destroyAwaited' = IF wrappedDestroy = "rejected" THEN destroyAwaited
                                          ELSE Append(destroyAwaited, msg.id)
                     /\ UNCHANGED <<toProxy, responded>>
             /\ UNCHANGED <<peerListener, peerSystem>>
        ELSE IF handled /\ msg.type = "actor-destroyed-ack"
        THEN /\ peerListener' = FALSE
             /\ peerSystem' = "destroying"
             /\ handshake' = handshake \o <<"actor-destroyed-ack", "system.destroy">>
             /\ UNCHANGED <<wrappedDestroy, destroyAwaited, toProxy, responded>>
        ELSE IF handled /\ msg.type = "parent-ping"
        THEN /\ toProxy' = Append(toProxy, Control("parent-pong", msg.id, ProxyActor))
             /\ responded' = Append(responded, msg.id)
             /\ UNCHANGED <<wrappedDestroy, destroyAwaited, peerListener, peerSystem,
                            handshake>>
        ELSE UNCHANGED <<wrappedDestroy, destroyAwaited, peerListener, peerSystem,
                         handshake, toProxy, responded>>
  /\ UNCHANGED <<proxyState, initializePromise, proxyDestroy, listening, busListener,
                 peerAlive, idCounter, responsePromises, timeouts, now, calls>>
  /\ UNCHANGED <<marshalling, peerIdCounter, peerResponsePromises, peerCalls, peerHandling>>
  /\ UNCHANGED <<requests, timeoutWorkerInterval>>
  /\ UNCHANGED notForkedVars

\* this.tree() / this.metrics() of the peer settles: the result goes back in an
\* actor-response, a failure in an error response.
PeerOperationSettles ==
  /\ peerAlive
  /\ \E op \in peerOperations :
       /\ peerOperations' = peerOperations \ {op}
       /\ \/ toProxy' = Append(toProxy, ActorResponse(op.id, Num(1)))
          \/ toProxy' = Append(toProxy, _sendErrorResponse(op.id, ErrStack))
       /\ responded' = Append(responded, op.id)
  /\ UNCHANGED <<proxyState, initializePromise, proxyDestroy, listening, busListener,
                 peerAlive, idCounter, responsePromises, timeouts, now, toPeer, calls>>
  /\ UNCHANGED <<marshalling, peerIdCounter, peerResponsePromises, peerCalls, peerHandling>>
  /\ UNCHANGED <<requests, peerListener, wrappedDestroy, destroyAwaited, peerSystem,
                 timeoutWorkerInterval, lastReceiveTimestamp, handshake>>
  /\ UNCHANGED notForkedVars

\* this.actor.destroy() of the peer settles: when it resolves, actor-destroyed
\* is sent for every destroy-actor that awaits it; a rejection has no handler.
WrappedDestroySettles ==
  /\ peerAlive
  /\ wrappedDestroy = "pending"
  /\ \/ /\ wrappedDestroy' = "resolved"
        /\ toProxy' = toProxy \o [k \in 1..Len(destroyAwaited) |->
                                    Control("actor-destroyed", destroyAwaited[k], ProxyActor)]
        /\ responded' = responded \o destroyAwaited
        /\ handshake' = handshake \o <<"destroyed">>
                          \o [k \in 1..Len(destroyAwaited) |-> "actor-destroyed"]
     \/ /\ wrappedDestroy' = "rejected"
        /\ handshake' = Append(handshake, "destroy failed")
        /\ UNCHANGED <<toProxy, responded>>
  /\ destroyAwaited' = <<>>
  /\ UNCHANGED <<proxyState, initializePromise, proxyDestroy, listening, busListener,
                 peerAlive, idCounter, responsePromises, timeouts, now, toPeer, calls>>
  /\ UNCHANGED <<marshalling, peerIdCounter, peerResponsePromises, peerCalls, peerHandling>>
  /\ UNCHANGED <<requests, peerListener, peerOperations, peerSystem, timeoutWorkerInterval,
                 lastReceiveTimestamp>>
  /\ UNCHANGED notForkedVars

\* The 'message' listener of the proxy for a reply: actor-response and
\* parent-pong settle the waiter of their id; actor-destroyed clears the
\* interval of the timeout worker, resolves the waiter of its id and sends
\* actor-destroyed-ack.
ProxyReply ==
  /\ busListener
  /\ toProxy # <<>>
  /\ Head(toProxy).type \in {"actor-response", "parent-pong", "actor-destroyed"}
  /\ Head(toProxy).id # 0
  /\ Head(toProxy).actorId = ProxyActor
  /\ LET msg == Head(toProxy)
         waiting == msg.id \in responsePromises
         failed == msg.type = "actor-response" /\ HasError(msg.body)
         status == IF failed THEN "rejected" ELSE "resolved"
         value == IF msg.type = "actor-response" /\ ~failed THEN msg.body.response
                  ELSE Undefined
         error == IF failed THEN msg.body.error ELSE None IN
     /\ toProxy' = Tail(toProxy)
     /\ lastReceiveTimestamp' = [lastReceiveTimestamp EXCEPT !.proxy = now]
     /\ responsePromises' = responsePromises \ {msg.id}
     /\ calls' = IF waiting THEN Settle(calls, {msg.id}, status, value, error) ELSE calls
     /\ requests' = IF waiting THEN Settle(requests, {msg.id}, status, value, error)
                    ELSE requests
     /\ IF msg.type = "actor-destroyed"
        THEN /\ timeoutWorkerInterval' = FALSE
             /\ idCounter' = AllocId(idCounter).idCounter
             /\ toPeer' = IF peerAlive
                          THEN Append(toPeer, Control("actor-destroyed-ack",
                                                      AllocId(idCounter).msgId, ProxyActor))
                          ELSE toPeer
             /\ handshake' = handshake \o (IF waiting THEN <<"waiter settled">> ELSE <<>>)
                               \o <<"ack sent">>
        ELSE UNCHANGED <<timeoutWorkerInterval, idCounter, toPeer, handshake>>
  /\ UNCHANGED <<proxyState, initializePromise, proxyDestroy, listening, busListener,
                 peerAlive, timeouts, now>>
  /\ UNCHANGED <<peerListener, peerOperations, wrappedDestroy, destroyAwaited, peerSystem>>
  /\ UNCHANGED <<moreForkedVars, notForkedVars>>

\* Envelopes the bus delivers to the proxy besides those of the model's peer.
MaxDelivered == 2
\* An actor that is neither the forked actor nor its parent.
OtherActor == CHOOSE a \in Actors : a \notin {Root, ProxyActor, parentOf(ProxyActor)}
TargetError == "Target actor ID doesn't match neither self nor parent"
ListenerTopic(actorId) == IF actorId = ProxyActor THEN "hello" ELSE "plus"
Delivered ==
  {[type |-> "actor-message", id |-> id, actorId |-> actorId,
    body |-> _sendActorMessage(ListenerTopic(actorId), <<Num(2)>>, receive)] :
     id \in {0, 7}, actorId \in {ProxyActor, parentOf(ProxyActor), OtherActor},
     receive \in BOOLEAN}
  \cup {Control(type, 7, OtherActor) :
          type \in {"actor-tree", "destroy-actor", "actor-response", "actor-destroyed",
                    "actor-destroyed-ack", "parent-ping"}}
  \cup {Control(type, 0, ProxyActor) : type \in {"actor-tree", "actor-response"}}

\* The bus of the proxy delivers an envelope.
BusDelivers(msg) ==
  /\ busListener
  /\ delivered < MaxDelivered
  /\ delivered' = delivered + 1
  /\ toProxy' = Append(toProxy, msg)
  /\ UNCHANGED dispatches
  /\ UNCHANGED <<proxyState, initializePromise, proxyDestroy, listening, busListener,
                 peerAlive, idCounter, responsePromises, timeouts, now, toPeer, calls>>
  /\ UNCHANGED <<moreForkedVars, controlVars, notEndpointVars>>

\* A variant of ProxyActorMessage that dispatches every actor-message to the
\* wrapped actor.
ProxyActorMessageToSelf ==
  /\ busListener
  /\ toProxy # <<>>
  /\ Head(toProxy).type = "actor-message"
  /\ Head(toProxy).id # 0
  /\ LET msg == Head(toProxy) IN
     /\ toProxy' = Tail(toProxy)
     /\ lastReceiveTimestamp' = [lastReceiveTimestamp EXCEPT !.proxy = now]
     /\ toPeer' = toPeer \o ProxyOnMessage([msg EXCEPT !.actorId = ProxyActor])
     /\ dispatches' = Append(dispatches, ProxyActor)
  /\ UNCHANGED delivered
  /\ UNCHANGED <<proxyState, initializePromise, proxyDestroy, listening, busListener,
                 peerAlive, idCounter, responsePromises, timeouts, now, calls>>
  /\ UNCHANGED <<requests, peerListener, peerOperations, wrappedDestroy, destroyAwaited,
                 peerSystem, timeoutWorkerInterval, handshake>>
  /\ UNCHANGED <<moreForkedVars, notEndpointVars>>

\* The 'message' listener of the proxy for an actor-message with an id: the
\* timestamp is taken; a message for the actor's id goes to the wrapped
\* actor, one for the parent's id to the parent, any other is answered by an
\* error response.
ProxyActorMessage ==
  /\ busListener
  /\ toProxy # <<>>
  /\ Head(toProxy).type = "actor-message"
  /\ Head(toProxy).id # 0
  /\ LET msg == Head(toProxy)
         known == msg.actorId = ProxyActor \/ msg.actorId = parentOf(ProxyActor) IN
     /\ toProxy' = Tail(toProxy)
     /\ lastReceiveTimestamp' = [lastReceiveTimestamp EXCEPT !.proxy = now]
     /\ toPeer' = toPeer \o ProxyOnMessage(msg)
     /\ dispatches' = IF known /\ _decodeMessageBody(msg.body).ok
                       THEN Append(dispatches, msg.actorId) ELSE dispatches
  /\ UNCHANGED delivered
  /\ UNCHANGED <<proxyState, initializePromise, proxyDestroy, listening, busListener,
                 peerAlive, idCounter, responsePromises, timeouts, now, calls>>
  /\ UNCHANGED <<requests, peerListener, peerOperations, wrappedDestroy, destroyAwaited,
                 peerSystem, timeoutWorkerInterval, handshake>>
  /\ UNCHANGED <<moreForkedVars, notEndpointVars>>

\* The 'message' listener of the proxy for an envelope it drops: one without
\* id, or one that is no actor-message and has another actor's id.  The
\* timestamp is taken before the tests.
ProxyDrops ==
  /\ busListener
  /\ toProxy # <<>>
  /\ \/ Head(toProxy).id = 0
     \/ Head(toProxy).type # "actor-message" /\ Head(toProxy).actorId # ProxyActor
  /\ toProxy' = Tail(toProxy)
  /\ lastReceiveTimestamp' = [lastReceiveTimestamp EXCEPT !.proxy = now]
  /\ UNCHANGED <<delivered, dispatches>>
  /\ UNCHANGED <<proxyState, initializePromise, proxyDestroy, listening, busListener,
                 peerAlive, idCounter, responsePromises, timeouts, now, toPeer, calls>>
  /\ UNCHANGED <<requests, peerListener, peerOperations, wrappedDestroy, destroyAwaited,
                 peerSystem, timeoutWorkerInterval, handshake>>
  /\ UNCHANGED <<moreForkedVars, notEndpointVars>>

-----------------------------------------------------------------------------
(* The actor system: creation of remote actors and clusters                *)
(* (ActorSystem.createActor, ActorSystem._createRemoteActor).              *)

\* Children of a cluster, hosts of a host list, and actors constructed in all.
MaxClusterSize == 3
MaxRemoteActors == 5

defaultListeningPort == 6161

\* A "host" or "host:port" text, with port "" when there is no ":port" part.
HostPort(host, port) == [host |-> host, port |-> port]
\* hostPort.split(':')
Split(hostPort) == IF hostPort.port = "" THEN <<hostPort.host>>
                   ELSE <<hostPort.host, hostPort.port>>
\* parseInt of the port texts in use.
parseInt(text) ==
  CASE text = "7000" -> 7000
    [] text = "6161" -> 6161
    [] OTHER -> 0

\* The host option: absent, one text, or an array of texts.
NoHost == [isArray |-> FALSE, items |-> <<>>]
HostText(hostPort) == [isArray |-> FALSE, items |-> <<hostPort>>]
HostArray(items) == [isArray |-> TRUE, items |-> items]

\* ActorSystem.options.clusters
clusters == [alpha |-> <<HostPort("h1", ""), HostPort("h2", "7000")>>]

\* Creation options; "", 0 and NoHost stand for a key that is absent.
Options(host, cluster, clusterSize, port) ==
  [host |-> host, cluster |-> cluster, clusterSize |-> clusterSize, port |-> port]
NoOptions == Options(NoHost, "", 0, 0)

\* _.extend({}, actorConfig, options): the keys of options override.
Extend(actorConfig, options) ==
  Options(IF options.host # NoHost THEN options.host ELSE actorConfig.host,
          IF options.cluster # "" THEN options.cluster ELSE actorConfig.cluster,
          IF options.clusterSize # 0 THEN options.clusterSize ELSE actorConfig.clusterSize,
          IF options.port # 0 THEN options.port ELSE actorConfig.port)

\* A createActor call for a child of the actor parent (0: the caller's actor),
\* the idx-th child of its cluster.
CreateActorCall(parent, idx, options) == [parent |-> parent, idx |-> idx, options |-> options]

\* The cluster definition of _createRemoteActor; undefined when there is none.
Undefined0 == [defined |-> FALSE, list |-> <<>>]
Defined(list) == [defined |-> TRUE, list |-> list]
clusterDef(options) ==
  IF options.cluster # "" THEN Defined(clusters[options.cluster])
  ELSE IF options.host.isArray THEN Defined(options.host.items)
  ELSE IF options.clusterSize > 1 THEN Defined(options.host.items)
  ELSE Undefined0

\* The options of the idx-th child of a cluster: without cluster, with the
\* host and port of its entry and clusterSize 1.
ChildOptions(options, hostPort) ==
  LET hostPort0 == Split(hostPort) IN
  Options(HostText(HostPort(hostPort0[1], "")), "", 1,
          IF Len(hostPort0) > 1 THEN parseInt(hostPort0[2]) ELSE defaultListeningPort)

ErrNoHostNoCluster == "Neither host nor cluster option specified for remote mode."
ErrNoCluster == "Cluster is not defined."

InitRemote ==
  /\ config = NoOptions
  /\ remoteOptions = NoOptions
  /\ createActorCalls = <<>>
  /\ remoteActors = <<>>
  /\ createError = None

\* The promise chain of a createActor call for a remote actor runs: the
\* configuration of the actor's name is merged under the options
\* (createActor), then _createRemoteActor constructs a balancer and calls its
\* createChild for every child of the cluster, or constructs one
\* RemoteActorParent.
createActor ==
  /\ createActorCalls # <<>>
  /\ Len(remoteActors) < MaxRemoteActors
  /\ LET call == Head(createActorCalls)
         options == Extend(config, call.options)
         id == Len(remoteActors) + 1
         def == clusterDef(options)
         clusterSize == IF options.clusterSize # 0 THEN options.clusterSize
                        ELSE Len(def.list) IN
     IF options.host = NoHost /\ options.cluster = ""
     THEN /\ createError' = ErrNoHostNoCluster
          /\ createActorCalls' = Tail(createActorCalls)
          /\ UNCHANGED remoteActors
     ELSE IF options.cluster # "" /\ options.cluster \notin DOMAIN clusters
     THEN /\ createError' = ErrNoCluster
          /\ createActorCalls' = Tail(createActorCalls)
          /\ UNCHANGED remoteActors
     ELSE IF def.defined
     THEN /\ remoteActors' = Append(remoteActors,
                                    [kind |-> "balancer", parent |-> call.parent,
                                     idx |-> call.idx, host |-> "", port |-> 0,
                                     clusterSize |-> clusterSize])
          /\ createActorCalls' = Tail(createActorCalls) \o
               [idx \in 1..clusterSize |->
                  CreateActorCall(id, idx - 1,
                    ChildOptions(options, def.list[((idx - 1) % Len(def.list)) + 1]))]
          /\ UNCHANGED createError
     ELSE /\ remoteActors' = Append(remoteActors,
                                    [kind |-> "remote", parent |-> call.parent,
                                     idx |-> call.idx,
                                     host |-> options.host.items[1].host,
                                     port |-> options.port,
                                     clusterSize |-> options.clusterSize])
          /\ createActorCalls' = Tail(createActorCalls)
          /\ UNCHANGED createError
  /\ UNCHANGED <<config, remoteOptions>>
  /\ UNCHANGED <<treeVars, forkedVars, moreTreeVars, moreForkedVars, resourceVars,
                 lifecycleVars, defaultVars, moreSystemVars>>

\* The host options, cluster names and configurations of the calls observed.
HostOptions == {NoHost, HostText(HostPort("h1", "")), HostText(HostPort("h2", "7000")),
                HostArray(<<HostPort("h3", ""), HostPort("h2", "7000")>>)}
ClusterOptions == {"", "alpha", "omega"}
ActorConfigs == {NoOptions, Options(NoHost, "alpha", 0, 0),
                 Options(HostText(HostPort("h1", "")), "", 2, 0)}

\* createActor(definition, parent, {mode: 'remote', ...}) is called in a system
\* with a configuration.
InitCreateRemote ==
  /\ config \in ActorConfigs
  /\ remoteOptions \in {Options(host, cluster, clusterSize, 0) :
                           host \in HostOptions, cluster \in ClusterOptions,
                           clusterSize \in 0..MaxClusterSize}
  /\ createActorCalls = <<CreateActorCall(0, 0, remoteOptions)>>
  /\ remoteActors = <<>>
  /\ createError = None

-----------------------------------------------------------------------------
(* The actor system: resources and their dependencies                      *)
(* (ActorSystem._injectResources, ActorSystem._initializeResource).        *)

\* The resource definitions are named 1..MaxResource.
MaxResource == 3
Resources == 1..MaxResource

\* An entry of resourceDefPromises: no promise yet ("unset"), the promise made
\* and its callback not yet run ("called"), the callback run and the promises of
\* the dependencies awaited ("waiting"), or the promise settled.
NoPromise == [status |-> "unset", depPath |-> <<>>, error |-> <<>>]
\* 'Cyclic resource dependency: ' + newDepPath.join('->')
ErrCyclic(newDepPath) == newDepPath

_contains(array, value) == \E k \in 1..Len(array) : array[k] = value

\* A variant of _initializeResource that makes a new promise at every call.
_initializeResourceAnew(promises, resourceName, depPath) ==
  [promises EXCEPT ![resourceName] =
     [status |-> "called", depPath |-> depPath, error |-> <<>>]]

\* The synchronous part of _initializeResource(resourceName, depPath): the
\* promise of resourceDefPromises if there is one; else a new promise is made,
\* with the path, and stored.
_initializeResource(promises, resourceName, depPath) ==
  IF promises[resourceName].status # "unset" THEN promises
  ELSE [promises EXCEPT ![resourceName] =
          [status |-> "called", depPath |-> depPath, error |-> <<>>]]

\* P.map(ResourceDefCls.inject(), resourceDep => ...): the mapper runs for the
\* dependencies in order; it throws for a dependency on the path and calls
\* _initializeResource for any other.  Yields the promises and what was thrown.
RECURSIVE MapDependencies(_, _, _)
MapDependencies(deps, depPath, promises) ==
  IF deps = <<>> THEN [promises |-> promises, thrown |-> <<>>]
  ELSE LET resourceDep == Head(deps)
           newDepPath == Append(depPath, resourceDep) IN
       IF _contains(depPath, resourceDep)
       THEN [promises |-> promises, thrown |-> ErrCyclic(newDepPath)]
       ELSE MapDependencies(Tail(deps), depPath,
                            _initializeResource(promises, resourceDep, newDepPath))

InitResources ==
  /\ inject = [r \in Resources |-> <<>>]
  /\ resourceDefPromises = [r \in Resources |-> NoPromise]
  /\ requested = {}
  /\ instantiated = [r \in Resources |-> 0]

\* _injectResources(Definition) with the inject list names: P.map calls
\* _initializeResource(resourceName) for every name of the list in one tick.
RECURSIVE InitializeAll(_, _)
InitializeAll(promises, names) ==
  IF names = {} THEN promises
  ELSE LET resourceName == CHOOSE n \in names : TRUE IN
       InitializeAll(_initializeResource(promises, resourceName, <<resourceName>>),
                     names \ {resourceName})

_injectResources(names) ==
  /\ names # {}
  /\ resourceDefPromises' = InitializeAll(resourceDefPromises, names)
  /\ requested' = requested \cup names
  /\ UNCHANGED <<inject, instantiated>>
  /\ UNCHANGED <<treeVars, forkedVars, moreTreeVars, moreForkedVars, remoteVars,
                 lifecycleVars, defaultVars, moreSystemVars>>

\* The callback of resourceDefClassesPromise.then in _initializeResource runs
\* for a resource: the dependencies are mapped; a throw of the mapper rejects
\* the promise of the resource.
ResourceDefClasses(resourceName) ==
  /\ resourceDefPromises[resourceName].status = "called"
  /\ LET mapped == MapDependencies(inject[resourceName],
                                   resourceDefPromises[resourceName].depPath,
                                   resourceDefPromises) IN
     resourceDefPromises' =
       [mapped.promises EXCEPT
          ![resourceName] = IF mapped.thrown # <<>>
                            THEN [@ EXCEPT !.status = "rejected", !.error = mapped.thrown]
                            ELSE [@ EXCEPT !.status = "waiting"]]
  /\ UNCHANGED <<inject, requested, instantiated>>
  /\ UNCHANGED <<treeVars, forkedVars, moreTreeVars, moreForkedVars, remoteVars,
                 lifecycleVars, defaultVars, moreSystemVars>>

\* depsPromise settles: resolved once the promise of every dependency has
\* resolved (the resource is then constructed and initialized), rejected with
\* the error of a dependency whose promise is rejected.
DepsPromise(resourceName) ==
  /\ resourceDefPromises[resourceName].status = "waiting"
  /\ LET deps == {inject[resourceName][k] : k \in 1..Len(inject[resourceName])} IN
     \/ /\ \A d \in deps : resourceDefPromises[d].status = "resolved"
        /\ resourceDefPromises' =
             [resourceDefPromises EXCEPT ![resourceName].status = "resolved"]
        /\ instantiated' = [instantiated EXCEPT ![resourceName] = @ + 1]
     \/ \E d \in deps :
          /\ resourceDefPromises[d].status = "rejected"
          /\ resourceDefPromises' =
               [resourceDefPromises EXCEPT ![resourceName].status = "rejected",
                                           ![resourceName].error = resourceDefPromises[d].error]
          /\ UNCHANGED instantiated
  /\ UNCHANGED <<inject, requested>>
  /\ UNCHANGED <<treeVars, forkedVars, moreTreeVars, moreForkedVars, remoteVars,
                 lifecycleVars, defaultVars, moreSystemVars>>

\* The inject lists of the resource definitions: any dependencies, in the order
\* of their names.
RECURSIVE SetToSeq(_)
SetToSeq(S) ==
  IF S = {} THEN <<>>
  ELSE LET m == CHOOSE x \in S : \A y \in S : x <= y IN <<m>> \o SetToSeq(S \ {m})

InitResourceGraph ==
  /\ inject \in [Resources -> {SetToSeq(S) : S \in SUBSET Resources}]
  /\ resourceDefPromises = [r \in Resources |-> NoPromise]
  /\ requested = {}
  /\ instantiated = [r \in Resources |-> 0]

-----------------------------------------------------------------------------
(* The actor system: destroy and the termination signals                   *)
(* (ActorSystem constructor, ActorSystem.destroy).                         *)

Signals == {"SIGINT", "SIGTERM"}

InitSystem ==
  /\ systemMode = "none"
  /\ server = FALSE
  /\ destroying = FALSE
  /\ systemDestroyPromise = "unset"
  /\ destroyChain = "idle"
  /\ destroySteps = <<>>
  /\ signalListeners = Signals
  /\ received = "none"
  /\ exited = "running"

\* A system of any mode, with or without a listening server.
InitSystemModes ==
  /\ systemMode \in {"none", "forked", "remote"}
  /\ server \in BOOLEAN
  /\ destroying = FALSE
  /\ systemDestroyPromise = "unset"
  /\ destroyChain = "idle"
  /\ destroySteps = <<>>
  /\ signalListeners = Signals
  /\ received = "none"
  /\ exited = "running"

\* A variant of systemDestroy without the test of the destroying flag.
systemDestroyAnew ==
  /\ exited = "running"
  /\ destroying' = TRUE
  /\ signalListeners' = {}
  /\ systemDestroyPromise' = "pending"
  /\ destroyChain' = "root"
  /\ UNCHANGED <<systemMode, server, destroySteps, received, exited>>
  /\ UNCHANGED <<treeVars, forkedVars, moreTreeVars, moreForkedVars, remoteVars,
                 resourceVars, defaultVars, moreSystemVars>>

\* ActorSystem.destroy(): a call while destroying returns the promise of the
\* first call; the first call sets the flag, removes the signal listeners and
\* starts the chain.
systemDestroy ==
  /\ exited = "running"
  /\ IF destroying
     THEN UNCHANGED <<destroying, signalListeners, systemDestroyPromise, destroyChain>>
     ELSE /\ destroying' = TRUE
          /\ signalListeners' = {}
          /\ systemDestroyPromise' = "pending"
          /\ destroyChain' = "root"
  /\ UNCHANGED <<systemMode, server, destroySteps, received, exited>>
  /\ UNCHANGED <<treeVars, forkedVars, moreTreeVars, moreForkedVars, remoteVars,
                 resourceVars, defaultVars, moreSystemVars>>

\* .then(rootActor => rootActor.destroy())
destroyRoot ==
  /\ exited = "running"
  /\ destroyChain = "root"
  /\ destroyCalls({Root})
  /\ destroyChain' = "rootActor.destroy"
  /\ destroySteps' = Append(destroySteps, "root")
  /\ UNCHANGED <<childPromises, childPromise, forwardList, forwardAllUnknown,
                 destroyMapped, destroyList>>
  /\ lastCall' = NoCall
  /\ UNCHANGED <<systemMode, server, destroying, systemDestroyPromise, signalListeners,
                 received, exited>>
  /\ UNCHANGED <<forkedVars, moreTreeVars, moreForkedVars, remoteVars, resourceVars,
                 defaultVars, moreSystemVars>>

\* The destroy of the root actor has settled: the chain goes on to the
\* marshallers, or to its finally handler when the destroy has failed.
rootDestroySettled ==
  /\ exited = "running"
  /\ destroyChain = "rootActor.destroy"
  /\ destroyPromise[Root] \in {"resolved", "rejected"}
  /\ destroyChain' = IF destroyPromise[Root] = "resolved" THEN "marshallers" ELSE "failed"
  /\ UNCHANGED <<systemMode, server, destroying, systemDestroyPromise, destroySteps,
                 signalListeners, received, exited>>
  /\ UNCHANGED <<treeVars, forkedVars, moreTreeVars, moreForkedVars, remoteVars,
                 resourceVars, defaultVars, moreSystemVars>>

\* A step of the chain after the destroy of the root: the destroy of the
\* reference marshallers, the destroy of the resources, server.close(); each
\* runs when the step before has succeeded, and a step that fails leads to the
\* finally handler.
ChainStep(from, step, to) ==
  /\ exited = "running"
  /\ destroyChain = from
  /\ destroySteps' = Append(destroySteps, step)
  /\ \/ destroyChain' = to
     \/ destroyChain' = "failed"
  /\ UNCHANGED <<systemMode, server, destroying, systemDestroyPromise, signalListeners,
                 received, exited>>
  /\ UNCHANGED <<treeVars, forkedVars, moreTreeVars, moreForkedVars, remoteVars,
                 resourceVars, defaultVars, moreSystemVars>>

destroyForkedMarshaller ==
  ChainStep("marshallers", "forkedActorReferenceMarshaller", "remoteMarshaller")

destroyRemoteMarshaller ==
  ChainStep("remoteMarshaller", "remoteActorReferenceMarshaller", "resources")

destroyResources ==
  ChainStep("resources", "resources", "server")

\* .then(() => { if (this.server) this.server.close(); })
closeServer ==
  /\ exited = "running"
  /\ destroyChain = "server"
  /\ destroySteps' = IF server THEN Append(destroySteps, "server") ELSE destroySteps
  /\ destroyChain' = "succeeded"
  /\ UNCHANGED <<systemMode, server, destroying, systemDestroyPromise, signalListeners,
                 received, exited>>
  /\ UNCHANGED <<treeVars, forkedVars, moreTreeVars, moreForkedVars, remoteVars,
                 resourceVars, defaultVars, moreSystemVars>>

\* .finally(...): in a forked or remote system the process exits; the promise
\* of destroy settles as the chain did.
finally ==
  /\ exited = "running"
  /\ destroyChain \in {"succeeded", "failed"}
  /\ exited' = IF systemMode \in {"forked", "remote"} THEN "process.exit()" ELSE exited
  /\ systemDestroyPromise' = IF destroyChain = "succeeded" THEN "resolved" ELSE "rejected"
  /\ destroyChain' = "done"
  /\ UNCHANGED <<systemMode, server, destroying, destroySteps, signalListeners, received>>
  /\ UNCHANGED <<treeVars, forkedVars, moreTreeVars, moreForkedVars, remoteVars,
                 resourceVars, defaultVars, moreSystemVars>>

\* A variant of signal whose listener calls destroy() of the system.
signalDestroys(sig) ==
  /\ exited = "running"
  /\ IF sig \in signalListeners /\ ~destroying
     THEN /\ destroying' = TRUE
          /\ signalListeners' = {}
          /\ systemDestroyPromise' = "pending"
          /\ destroyChain' = "root"
          /\ UNCHANGED exited
     ELSE /\ exited' = sig
          /\ UNCHANGED <<destroying, signalListeners, systemDestroyPromise, destroyChain>>
  /\ received' = sig
  /\ UNCHANGED <<systemMode, server, destroySteps>>
  /\ UNCHANGED <<treeVars, forkedVars, moreTreeVars, moreForkedVars, remoteVars,
                 resourceVars, defaultVars, moreSystemVars>>

\* The process receives SIGINT or SIGTERM: sigintHandler / sigtermHandler log
\* and call process.exit(0); once destroy() has removed the listeners the
\* signal terminates the process by its default action.
signal(sig) ==
  /\ exited = "running"
  /\ received' = sig
  /\ exited' = IF sig \in signalListeners THEN "process.exit(0)" ELSE sig
  /\ UNCHANGED <<systemMode, server, destroying, systemDestroyPromise, destroyChain,
                 destroySteps, signalListeners>>
  /\ UNCHANGED <<treeVars, forkedVars, moreTreeVars, moreForkedVars, remoteVars,
                 resourceVars, defaultVars, moreSystemVars>>

-----------------------------------------------------------------------------
(* The actor system: the default system (ActorSystem.default).             *)

MaxSystems == 3
MaxDefaultCalls == 3

\* var defaultSystem; (undefined)
NoSystem == 0

InitDefault ==
  /\ defaultSystem = NoSystem
  /\ systems = 0
  /\ defaultReturns = <<>>

\* new ActorSystem(options), made by the application.
newActorSystem ==
  /\ exited = "running"
  /\ systems < MaxSystems
  /\ systems' = systems + 1
  /\ UNCHANGED <<defaultSystem, defaultReturns>>
  /\ UNCHANGED <<treeVars, forkedVars, moreTreeVars, moreForkedVars, remoteVars,
                 resourceVars, lifecycleVars, moreSystemVars>>

\* ActorSystem.default(): if (defaultSystem) { defaultSystem = new
\* ActorSystem(); } return defaultSystem;
default ==
  /\ exited = "running"
  /\ Len(defaultReturns) < MaxDefaultCalls
  /\ IF defaultSystem # NoSystem
     THEN /\ systems' = systems + 1
          /\ defaultSystem' = systems + 1
     ELSE UNCHANGED <<systems, defaultSystem>>
  /\ defaultReturns' = Append(defaultReturns, defaultSystem')
  /\ UNCHANGED <<treeVars, forkedVars, moreTreeVars, moreForkedVars, remoteVars,
                 resourceVars, lifecycleVars, moreSystemVars>>

\* C29: ActorSystem.default() is a lazy singleton: the first call creates an
\* actor system, and every call, the first included, returns that same
\* system.
DefaultIsLazySingleton ==
  /\ defaultReturns # <<>> => defaultSystem \in 1..systems
  /\ \A i \in 1..Len(defaultReturns) : defaultReturns[i] = defaultSystem

-----------------------------------------------------------------------------
\* The steps of a destroy of the system that succeeds.
FullSteps ==
  <<"root", "forkedActorReferenceMarshaller", "remoteActorReferenceMarshaller", "resources">>
    \o (IF server THEN <<"server">> ELSE <<>>)

IsPrefix(s, t) == Len(s) <= Len(t) /\ s = SubSeq(t, 1, Len(s))

SignalExits == {"process.exit(0)"} \cup Signals

\* C28: when the process has received SIGINT or SIGTERM and has exited on it,
\* the system's destroy() has been triggered: the root actor and its
\* descendants are destroyed and their destroy hooks have run.
SignalTriggersDestroy ==
  received # "none" /\ exited \in SignalExits =>
    /\ destroying
    /\ \A a \in Actors :
         state[a] # "none" => state[a] = "destroyed" /\ a \in Range(destroyList)

\* C28 (amended): a signal the process receives while destroy() has not been
\* called makes it exit in that very step by process.exit(0) of the system's
\* listener; a signal never triggers destroy(): no actor changes its state and
\* no destroy hook runs.
SignalExitsAtOnce ==
  [][received' # received =>
       /\ ~destroying => exited' = "process.exit(0)"
       /\ UNCHANGED <<destroying, destroyChain, destroySteps, state, destroyPromise,
                      destroyStep, destroyList>>]_vars

\* C28 (witness): SIGTERM has made the process exit with a ready child of the
\* root left as it was, no destroy hook run and destroy() never called.
ExitedOnSignalWithLiveActors ==
  /\ received = "SIGTERM"
  /\ exited = "process.exit(0)"
  /\ ~destroying
  /\ destroyList = <<>>
  /\ \E c \in Actors : c # Root /\ parentOf(c) = Root /\ state[c] = "ready"

-----------------------------------------------------------------------------
(* The listening server of a system (ActorSystem.listen).                  *)

\* Bounds: the calls of listen() and the control connections.
MaxListens == 2
MaxSockets == 2

MessageTypes == {"create-actor", "other"}

\* What the operations of the server leave alone.
notServerVars == <<treeVars, forkedVars, moreTreeVars, moreForkedVars, remoteVars,
                   resourceVars, defaultVars, controlVars, listenerVars, emitterVars,
                   hookVars>>

InitServer ==
  /\ serverPromise = FALSE
  /\ netServers = 0
  /\ listenCalls = 0
  /\ sockets = <<>>

\* ActorSystem.listen: the first call creates the net server and keeps its
\* promise, a later call returns the promise it finds.
listen ==
  /\ listenCalls < MaxListens
  /\ listenCalls' = listenCalls + 1
  /\ IF ~serverPromise
     THEN /\ serverPromise' = TRUE
          /\ server' = TRUE
          /\ netServers' = netServers + 1
     ELSE UNCHANGED <<serverPromise, server, netServers>>
  /\ UNCHANGED sockets
  /\ UNCHANGED <<systemMode, destroying, systemDestroyPromise, destroyChain, destroySteps,
                 signalListeners, received, exited>>
  /\ UNCHANGED notServerVars

\* A control connection on which an envelope has arrived.  worker: the state
\* of the forked worker process ("none": no worker); written: what was
\* written to the caller; steps: what the server did, in order.
Socket(type, worker, spawned) ==
  [type |-> type, worker |-> worker, spawned |-> spawned,
   errorListener |-> worker # "none", messageListener |-> FALSE,
   written |-> <<>>, ended |-> FALSE, steps |-> <<>>]

\* server.on('connection') and msgSocket.on('message'): an envelope of another
\* type than create-actor is left alone; for create-actor a worker is forked,
\* the envelope is sent to it and the listener of its 'error' is registered.
\* The worker process starts or fails to.
onMessage(type, spawned) ==
  /\ server
  /\ Len(sockets) < MaxSockets
  /\ type # "create-actor" => ~spawned
  /\ sockets' = Append(sockets,
                       IF type # "create-actor" THEN Socket(type, "none", FALSE)
                       ELSE Socket(type, "sending", spawned))
  /\ UNCHANGED <<serverPromise, netServers, listenCalls>>
  /\ UNCHANGED <<lifecycleVars, notServerVars>>

\* The callback of workerProcess.send: with an error, the error is written
\* to the caller; without, the listener of the worker's first message is
\* registered.  The send to a worker that failed to start fails.
sendCallback(s, err) ==
  /\ s \in 1..Len(sockets)
  /\ sockets[s].worker = "sending"
  /\ ~sockets[s].spawned => err
  /\ sockets' = [sockets EXCEPT
       ![s].worker = IF err THEN "send failed" ELSE "sent",
       ![s].messageListener = ~err,
       ![s].written = IF err THEN Append(@, "error") ELSE @,
       ![s].steps = IF err THEN Append(@, "write") ELSE @]
  /\ UNCHANGED <<serverPromise, netServers, listenCalls>>
  /\ UNCHANGED <<lifecycleVars, notServerVars>>

\* workerProcess.once('message'): the first message of the worker is written
\* to the caller, the socket ended, the worker disconnected and unref'ed.
workerMessage(s) ==
  /\ s \in 1..Len(sockets)
  /\ sockets[s].messageListener
  /\ sockets' = [sockets EXCEPT
       ![s].worker = "detached",
       ![s].messageListener = FALSE,
       ![s].written = Append(@, "response"),
       ![s].ended = TRUE,
       ![s].steps = @ \o <<"write", "end", "disconnect", "unref">>]
  /\ UNCHANGED <<serverPromise, netServers, listenCalls>>
  /\ UNCHANGED <<lifecycleVars, notServerVars>>

\* workerProcess.once('error'): the failure of the worker process to start is
\* written to the caller.
workerError(s) ==
  /\ s \in 1..Len(sockets)
  /\ sockets[s].errorListener
  /\ ~sockets[s].spawned
  /\ sockets' = [sockets EXCEPT
       ![s].errorListener = FALSE,
       ![s].written = Append(@, "error"),
       ![s].steps = Append(@, "write")]
  /\ UNCHANGED <<serverPromise, netServers, listenCalls>>
  /\ UNCHANGED <<lifecycleVars, notServerVars>>

-----------------------------------------------------------------------------
(* The events of an actor behind a ForkedActorProxy.                       *)

\* Bounds: the listeners registered and the events emitted.
MaxListeners == 2
MaxEmitted == 3

Events == {"destroyed", "crashed"}

\* What the operations on the events of an actor leave alone.
notEmitterVars == <<treeVars, forkedVars, moreTreeVars, moreForkedVars, remoteVars,
                    resourceVars, lifecycleVars, defaultVars, controlVars, listenerVars,
                    serverVars, hookVars>>

InitEmitter ==
  /\ listeners = <<>>
  /\ invocations = <<>>
  /\ emitted = 0

\* A listener of the wrapped actor: its event, the method it was registered
\* through, whether the emitter removes it at its first invocation, and
\* whether it is registered still.
Listener(event, through, single) ==
  [event |-> event, through |-> through, single |-> single, registered |-> TRUE]

\* ForkedActorProxy.once(event, listener): this.actor.on.apply(this.actor,
\* arguments), a listener that stays.
once(event) ==
  /\ Len(listeners) < MaxListeners
  /\ listeners' = Append(listeners, Listener(event, "ForkedActorProxy.once", FALSE))
  /\ invocations' = Append(invocations, 0)
  /\ UNCHANGED emitted
  /\ UNCHANGED notEmitterVars

\* actor.once(event, listener) on the wrapped actor itself, as createChild
\* does for 'destroyed': a listener the emitter removes when it invokes it.
actorOnce(event) ==
  /\ Len(listeners) < MaxListeners
  /\ listeners' = Append(listeners, Listener(event, "Actor.once", TRUE))
  /\ invocations' = Append(invocations, 0)
  /\ UNCHANGED emitted
  /\ UNCHANGED notEmitterVars

\* The wrapped actor emits an event: every listener registered for it is
\* invoked, and a single-use listener is removed.
emit(event) ==
  /\ emitted < MaxEmitted
  /\ emitted' = emitted + 1
  /\ invocations' =
       [k \in 1..Len(listeners) |->
          IF listeners[k].registered /\ listeners[k].event = event
          THEN invocations[k] + 1 ELSE invocations[k]]
  /\ listeners' =
       [k \in 1..Len(listeners) |->
          IF listeners[k].registered /\ listeners[k].event = event /\ listeners[k].single
          THEN [listeners[k] EXCEPT !.registered = FALSE] ELSE listeners[k]]
  /\ UNCHANGED notEmitterVars

-----------------------------------------------------------------------------
(* The specifications of the actor system.                                 *)

\* The destroy of a system and the termination signals, over the actor tree of
\* the process while it runs.
NextSystem ==
  \/ exited = "running" /\ \E a, c \in Actors : createChild(a, c)
  \/ exited = "running" /\ \E c \in Actors : initialize(c)
  \/ exited = "running" /\ \E a \in Actors : destroy(a)
  \/ exited = "running" /\ \E a \in Actors : destroyChildren(a)
  \/ exited = "running" /\ \E a \in Actors : destroy0(a)
  \/ exited = "running" /\ \E a \in Actors : destroyed(a)
  \/ systemDestroy
  \/ destroyRoot
  \/ rootDestroySettled
  \/ destroyForkedMarshaller
  \/ destroyRemoteMarshaller
  \/ destroyResources
  \/ closeServer
  \/ finally
  \/ \E sig \in Signals : signal(sig)

\* A running system of any mode, with or without a server.
InitRunningSystem ==
  InitTree /\ InitForked /\ InitRemote /\ InitResources /\ InitSystemModes /\ InitDefault
    /\ InitControl /\ InitServer /\ InitEmitter /\ InitHooks

SpecSystem == InitRunningSystem /\ [][NextSystem]_vars

\* The default system of a process: the calls of ActorSystem.default() and of
\* the constructor, while the system of the process, whose root actor has no
\* child, runs, is destroyed or receives a signal.
NextDefault ==
  \/ default
  \/ newActorSystem
  \/ exited = "running" /\ \E a \in Actors : destroy0(a)
  \/ exited = "running" /\ \E a \in Actors : destroyed(a)
  \/ systemDestroy
  \/ destroyRoot
  \/ rootDestroySettled
  \/ destroyForkedMarshaller
  \/ destroyRemoteMarshaller
  \/ destroyResources
  \/ closeServer
  \/ finally
  \/ \E sig \in Signals : signal(sig)

SpecDefault == InitRunningSystem /\ [][NextDefault]_vars

\* The creation of a remote actor or cluster.
NextRemote == createActor

\* A system with a configuration, before its first createActor.
InitRemoteSystem ==
  InitTree /\ InitForked /\ InitCreateRemote /\ InitResources /\ InitSystem /\ InitDefault
    /\ InitControl /\ InitServer /\ InitEmitter /\ InitHooks

SpecRemote == InitRemoteSystem /\ [][NextRemote]_vars

\* The initialization of resources with any inject lists.
NextResources ==
  \/ \E names \in SUBSET Resources : _injectResources(names)
  \/ \E r \in Resources : ResourceDefClasses(r)
  \/ \E r \in Resources : DepsPromise(r)

\* A system with resource definitions, none of them requested.
InitResourceSystem ==
  InitTree /\ InitForked /\ InitRemote /\ InitResourceGraph /\ InitSystem /\ InitDefault
    /\ InitControl /\ InitServer /\ InitEmitter /\ InitHooks

SpecResources == InitResourceSystem /\ [][NextResources]_vars

-----------------------------------------------------------------------------
(* The specifications of the actor tree.                                   *)

Init ==
  /\ InitTree
  /\ InitForked
  /\ InitRemote
  /\ InitResources
  /\ InitSystem
  /\ InitDefault
  /\ InitControl
  /\ InitServer
  /\ InitEmitter
  /\ InitHooks

\* The lifecycle of the tree, with calls on every actor.
Next ==
  \/ \E a, c \in Actors : createChild(a, c)
  \/ \E c \in Actors : initialize(c)
  \/ \E c \in Actors : initializeFails(c)
  \/ \E a \in Actors : destroy(a)
  \/ \E a \in Actors : destroyChildren(a)
  \/ \E a \in Actors : destroy0(a)
  \/ \E a \in Actors : destroyed(a)
  \/ \E a \in Actors : crash(a)
  \/ \E a \in Actors, topic \in Topics, args \in ArgLists, receive \in BOOLEAN :
       Call(a, topic, args, receive)

Spec == Init /\ [][Next]_vars

\* Dispatch and forwarding among the in-memory actors.
NextDispatch ==
  \/ \E a, c \in InMemoryActors : createChild(a, c)
  \/ \E c \in InMemoryActors : initialize(c)
  \/ \E a \in InMemoryActors, topics \in TopicLists : forwardToParent(a, topics)
  \/ \E a \in InMemoryActors : forwardToParentAll(a)
  \/ \E a, c \in InMemoryActors, topics \in TopicLists : forwardToChild(a, c, topics)
  \/ \E a \in InMemoryActors, topic \in Topics, args \in ArgLists, receive \in BOOLEAN :
       Call(a, topic, args, receive)

SpecDispatch == Init /\ [][NextDispatch]_vars

\* Names given to children with options.name ("": none given).
Names == {"", "Child1"}

\* The child registry: named and unnamed children are created and destroyed.
NextTree ==
  \/ \E a, c \in Actors, optionsName \in Names : createChildWithOptions(a, c, optionsName)
  \/ \E c \in Actors : initialize(c)
  \/ \E c \in Actors : initializeFails(c)
  \/ \E a \in Actors : destroy(a)
  \/ \E a \in Actors : destroyChildren(a)
  \/ \E a \in Actors : destroy0(a)
  \/ \E a \in Actors : destroyed(a)

SpecTree == Init /\ [][NextTree]_vars

\* Creations whose initialize fails with an error; the initialize of the
\* actor that awaits a createChild settles as that createChild.
NextHooks ==
  \/ \E a, c \in Actors, optionsName \in Names : createChildWithOptions(a, c, optionsName)
  \/ \E c \in Actors :
       /\ IF InitializeAwaits(c) = NoActor THEN TRUE
          ELSE childPromise[InitializeAwaits(c)] = "resolved"
       /\ initialize(c)
  \/ \E c \in Actors, err \in HookErrors :
       /\ InitializeAwaits(c) = NoActor
       /\ initializeRejects(c, err)
  \/ \E p \in Actors :
       /\ InitializeAwaits(p) # NoActor
       /\ IF InitializeAwaits(p) = NoActor THEN FALSE
          ELSE /\ childPromise[InitializeAwaits(p)] = "rejected"
               /\ initializeRejects(p, childError[InitializeAwaits(p)])
  \/ \E a \in Actors : destroy(a)
  \/ \E a \in Actors : destroyChildren(a)
  \/ \E a \in Actors : destroy0(a)
  \/ \E a \in Actors : destroyed(a)

SpecHooks == Init /\ [][NextHooks]_vars

\* forwardToChild while children are being created.
\* createChild on actors in every state: the tree with destroy and the crash of
\* the forked actor.
NextCreate ==
  \/ \E a \in Actors : createChildCall(a, "")
  \/ \E c \in Actors : initialize(c)
  \/ \E a \in Actors : destroy(a)
  \/ \E a \in Actors : destroyChildren(a)
  \/ \E a \in Actors : destroy0(a)
  \/ \E a \in Actors : destroyed(a)
  \/ \E a \in Actors : crash(a)

SpecCreate == Init /\ [][NextCreate]_vars

NextForward ==
  \/ \E a, c \in Actors : createChild(a, c)
  \/ \E c \in Actors : initialize(c)
  \/ \E c \in Actors : initializeFails(c)
  \/ \E a, c \in Actors, topics \in TopicLists : forwardToChildCall(a, c, topics)
  \/ forwardToChildThen

SpecForward == Init /\ [][NextForward]_vars

-----------------------------------------------------------------------------
(* The specifications of the forked proxy.                                 *)

\* The proxy's lifecycle, requests with and without timeout, the peer's exit.
NextForked ==
  \/ ForkedInitialize
  \/ ForkedInitialized
  \/ ProxyDestroy
  \/ ProxyDestroyed
  \/ BusExit
  \/ \E receive \in BOOLEAN, timeout \in Timeouts :
       ProxyCall("hello", <<Num(2)>>, receive, timeout)
  \/ PeerReceive
  \/ ProxyReceive
  \/ Tick
  \/ TimeoutWorker

SpecForked == Init /\ [][NextForked]_vars

\* The argument encoding: calls with every argument list, answered by the peer.
NextMarshal ==
  \/ ForkedInitialize
  \/ ForkedInitialized
  \/ \E topic \in ForkedTopics, message \in Messages, receive \in BOOLEAN :
       ProxyCall(topic, message, receive, 0)
  \/ PeerReceive
  \/ ProxyReceive

SpecMarshal == Init /\ [][NextMarshal]_vars

\* Topics of the calls on the proxy whose handlers return or throw.
PeerTopics == {"hello", "sorry", "oops", "later"}

\* Requests in both directions, answered by handlers that return, throw or
\* defer their result.
NextPeer ==
  \/ ForkedInitialize
  \/ ForkedInitialized
  \/ \E topic \in PeerTopics, receive \in BOOLEAN : ProxyCall(topic, <<Num(2)>>, receive, 0)
  \/ PeerReceive
  \/ PeerHandlerResolved
  \/ ProxyReceive
  \/ PeerCall("plus", <<Num(2)>>)
  \/ ProxyDispatch
  \/ PeerResponse

SpecPeer == Init /\ [][NextPeer]_vars

\* Messages of the calls whose envelopes are ordered: a number, a listening
\* server handle, an actor reference.
OrderMessages == {<<Num(2)>>, <<Server>>, <<ActorRef>>}

\* Calls on the proxy with the marshalling of their messages.
NextOrder ==
  \/ ForkedInitialize
  \/ ForkedInitialized
  \/ \E message \in OrderMessages, receive \in BOOLEAN : ProxySend("hello", message, receive)
  \/ \E k \in 1..MaxCalls : ProxyMarshalled(k)

SpecOrder == Init /\ [][NextOrder]_vars

\* The topics of the calls made before a destroy: a handler that returns and
\* one that defers its result.
HandshakeTopics == {"hello", "later"}

\* Requests and control requests on the proxy, its destroy with the handshake
\* of the two endpoints, and the exit of the peer that ends it.
NextHandshake ==
  \/ ForkedInitialize
  \/ ForkedInitialized
  \/ \E topic \in HandshakeTopics : ProxyCall(topic, <<Num(2)>>, TRUE, 0)
  \/ \E type \in RequestTypes : ProxyRequest(type)
  \/ ProxyDestroy
  \/ ParentDestroy0
  \/ ParentDestroyed
  \/ peerListener /\ PeerReceive
  \/ PeerHandlerResolved
  \/ PeerControl
  \/ PeerOperationSettles
  \/ WrappedDestroySettles
  \/ ProxyReply
  \/ peerSystem = "destroying" /\ BusExit

SpecHandshake == Init /\ [][NextHandshake]_vars

\* Requests with and without timeout whose handler defers its result, and the
\* destroy of the proxy with its handshake while they are pending.
NextPending ==
  \/ ForkedInitialize
  \/ ForkedInitialized
  \/ \E timeout \in {0, 1} : ProxyCall("later", <<Num(2)>>, TRUE, timeout)
  \/ ProxyDestroy
  \/ ParentDestroy0
  \/ ParentDestroyed
  \/ peerListener /\ PeerReceive
  \/ PeerHandlerResolved
  \/ PeerControl
  \/ WrappedDestroySettles
  \/ ProxyReply
  \/ peerSystem = "destroying" /\ BusExit
  \/ Tick
  \/ timeoutWorkerInterval /\ TimeoutWorker

SpecPending == Init /\ [][NextPending]_vars

\* The listener of the proxy over envelopes of any origin, with the requests
\* of the proxy and their responses.
NextListener ==
  \/ ForkedInitialize
  \/ ForkedInitialized
  \/ ProxyCall("hello", <<Num(2)>>, TRUE, 0)
  \/ peerListener /\ PeerReceive
  \/ \E msg \in Delivered : BusDelivers(msg)
  \/ ProxyActorMessage
  \/ ProxyDrops
  \/ ProxyReply
  \/ Tick

SpecListener == Init /\ [][NextListener]_vars

\* The ids of the envelopes of both endpoints: requests with and without a
\* timeout, their responses and their timeouts, and requests of the peer that
\* the proxy answers.
NextIds ==
  \/ ForkedInitialize
  \/ ForkedInitialized
  \/ \E receive \in BOOLEAN, timeout \in {0, 1} :
       ProxyCall("hello", <<Num(2)>>, receive, timeout)
  \/ PeerReceive
  \/ ProxyReceive
  \/ PeerCall("plus", <<Num(2)>>)
  \/ ProxyDispatch
  \/ PeerResponse
  \/ Tick
  \/ TimeoutWorker

SpecIds == Init /\ [][NextIds]_vars

\* The events of the actor behind a proxy and their listeners.
NextEmitter ==
  \/ \E event \in Events : once(event)
  \/ \E event \in Events : actorOnce(event)
  \/ \E event \in Events : emit(event)

SpecEmitter == Init /\ [][NextEmitter]_vars

\* The listening server of a system and its control connections.
NextServer ==
  \/ listen
  \/ \E type \in MessageTypes, spawned \in BOOLEAN : onMessage(type, spawned)
  \/ \E s \in 1..MaxSockets, err \in BOOLEAN : sendCallback(s, err)
  \/ \E s \in 1..MaxSockets : workerMessage(s)
  \/ \E s \in 1..MaxSockets : workerError(s)

SpecServer == Init /\ [][NextServer]_vars

-----------------------------------------------------------------------------
(* Properties of the actor tree.                                           *)

\* Whether actor d is a descendant of actor a: created below a, through created
\* actors only (the promise of createChild has resolved for each).
RECURSIVE IsDescendant(_, _)
IsDescendant(d, a) ==
  /\ d # Root
  /\ childPromise[d] = "resolved"
  /\ parentOf(d) = a \/ IsDescendant(parentOf(d), a)

\* C1: a send or sendAndReceive on an actor whose state is not ready is
\* rejected without any handler, forward target or transport being invoked; the
\* error is 'Actor has not yet been initialized' in state new, 'Actor crashed,
\* no interaction possible' in state crashed and 'destroy() has been called for
\* this actor' in states destroying and destroyed.
NotReadyCallsFail ==
  lastCall.actor # NoActor =>
    LET s == state[lastCall.actor]
        result == lastCall.result IN
    /\ s # "ready" => ~result.ok /\ result.by = NoActor /\ result.how = "none"
    /\ s = "new" => result.error = ErrNotInitialized
    /\ s = "crashed" => result.error = ErrCrashed
    /\ s \in {"destroying", "destroyed"} => result.error = ErrDestroyCalled

\* A child whose initialize is running has called its parent, whose own
\* initialize has not completed, and got the not-yet-initialized error.
ChildCallsNewParent ==
  /\ lastCall.actor # NoActor
  /\ state[lastCall.actor] = "new"
  /\ \E c \in Actors : c # Root /\ parentOf(c) = lastCall.actor /\ childPromise[c] = "pending"
  /\ lastCall.result.error = ErrNotInitialized

\* C3: the destroy hook of an actor runs only after the destroy of every one
\* of its descendants in the tree has completed: once an actor's hook has fired,
\* no created descendant is left with its destroy not started or under way.
DestroyHooksPostOrder ==
  \A a \in Range(destroyList) : \A d \in Actors :
    IsDescendant(d, a) => destroyPromise[d] \in {"resolved", "rejected"}

\* Whether no entry of the actor's forward list matches the topic.
NoForwardEntry(a, topic) ==
  \A i \in 1..Len(forwardList[a]) : ~MatcherMatches(forwardList[a][i][1], topic)

\* What a handler of actor a yields for a sendAndReceive with the arguments.
HandledBy(a, topic, args) ==
  Outcome(TRUE, HandlerReturn(a, topic, args), None, a, "handler", args)

\* C4 (as claimed): a sendAndReceive on a ready in-memory actor, for a topic
\* its behaviour has a handler for, invokes that handler with exactly the
\* arguments of the call and yields the handler's return value.
SendAndReceiveInvokesHandler ==
  lastCall.actor # NoActor =>
    LET a == lastCall.actor IN
    (lastCall.receive /\ state[a] = "ready" /\ getMode(a) = "in-memory"
       /\ lastCall.topic \in definition(a))
      => lastCall.result = HandledBy(a, lastCall.topic, lastCall.args)

\* C4 (amended): the same, for a topic that no entry of the actor's forward
\* list matches.
SendAndReceiveInvokesHandlerUnlessForwarded ==
  lastCall.actor # NoActor =>
    LET a == lastCall.actor IN
    (lastCall.receive /\ state[a] = "ready" /\ getMode(a) = "in-memory"
       /\ lastCall.topic \in definition(a) /\ NoForwardEntry(a, lastCall.topic))
      => lastCall.result = HandledBy(a, lastCall.topic, lastCall.args)

\* A ready actor that forwards another topic has answered a sendAndReceive with
\* two arguments through its own handler.
HandlerAnsweredTwoArguments ==
  /\ lastCall.actor # NoActor
  /\ lastCall.receive
  /\ state[lastCall.actor] = "ready"
  /\ Len(lastCall.args) = 2
  /\ forwardList[lastCall.actor] # <<>>
  /\ NoForwardEntry(lastCall.actor, lastCall.topic)
  /\ lastCall.result = HandledBy(lastCall.actor, lastCall.topic, lastCall.args)

\* C5: a send or sendAndReceive on a ready actor, for a topic matched by an
\* entry of its forward list, has the result of the same call made directly on
\* the entry's target (the first matching entry), and the actor's own handler
\* is not invoked.
ForwardingTransparent ==
  lastCall.actor # NoActor =>
    LET a == lastCall.actor
        i == FindForward(a, lastCall.topic) IN
    (state[a] = "ready" /\ i # 0)
      => /\ lastCall.result = send(forwardList[a][i][2], lastCall.topic, lastCall.args,
                                   lastCall.receive, {})
         /\ lastCall.result.by # a

\* C10: on a ready in-memory actor, a send and a sendAndReceive of a topic
\* that has no handler in the behaviour and matches no forwarding (no entry of
\* the forward list, no forwarding of unknown topics) fail with 'No handler for
\* message', and no handler is invoked.
UnknownTopicFails ==
  lastCall.actor # NoActor =>
    LET a == lastCall.actor IN
    (state[a] = "ready" /\ getMode(a) = "in-memory" /\ lastCall.topic \notin definition(a)
       /\ NoForwardEntry(a, lastCall.topic) /\ forwardAllUnknown[a] = NoActor)
      => lastCall.result = Rejected(ErrNoHandler)

\* A send of a topic without handler, on a ready actor that forwards another
\* topic, has failed with 'No handler for message'.
UnknownTopicSent ==
  /\ lastCall.actor # NoActor
  /\ ~lastCall.receive
  /\ state[lastCall.actor] = "ready"
  /\ lastCall.topic \notin definition(lastCall.actor)
  /\ forwardList[lastCall.actor] # <<>>
  /\ NoForwardEntry(lastCall.actor, lastCall.topic)
  /\ forwardAllUnknown[lastCall.actor] = NoActor
  /\ lastCall.result.error = ErrNoHandler

\* C12: a send or sendAndReceive on a ready actor, for a topic matched by at
\* least one entry of its forward list, is delegated with its arguments to the
\* target of the first matching entry, whatever forwardAllUnknown is and whether
\* or not the behaviour has a handler for the topic.
ForwardListFirstMatch ==
  lastCall.actor # NoActor =>
    LET a == lastCall.actor
        i == FindForward(a, lastCall.topic) IN
    (state[a] = "ready" /\ i # 0)
      => /\ _checkForward(a, lastCall.topic) = forwardList[a][i][2]
         /\ lastCall.result = send(forwardList[a][i][2], lastCall.topic, lastCall.args,
                                   lastCall.receive, {a})

\* After forwardToParent(true), what a call on a ready actor does with a topic
\* that no entry of the forward list matches: a topic with a handler is handled
\* by the actor itself, a topic without handler is delegated to the parent.
UnknownGoesToParent ==
  lastCall.actor # NoActor =>
    LET a == lastCall.actor
        result == lastCall.result IN
    (state[a] = "ready" /\ forwardAllUnknown[a] # NoActor /\ NoForwardEntry(a, lastCall.topic))
      => /\ lastCall.topic \in definition(a)
              => result.ok /\ result.by = a /\ result.how = "handler"
                           /\ result.args = lastCall.args
         /\ lastCall.topic \notin definition(a)
              => /\ forwardAllUnknown[a] = parentOf(a)
                 /\ result = send(parentOf(a), lastCall.topic, lastCall.args,
                                  lastCall.receive, {a})

\* C13: forwardToParent(true) sets forwardAllUnknown and leaves the forward list
\* unchanged; from then on a topic is delegated to the parent through
\* forwardAllUnknown only when the behaviour has no handler for it.
ForwardAllUnknownOnlyUnhandled ==
  [][/\ forwardAllUnknown' # forwardAllUnknown => forwardList' = forwardList
     /\ UnknownGoesToParent']_vars

\* After forwardToParent(true) on an actor with a forward entry for another
\* topic, a topic without handler was answered by the parent's handler.
UnknownAnsweredByParent ==
  /\ lastCall.actor # NoActor
  /\ state[lastCall.actor] = "ready"
  /\ forwardAllUnknown[lastCall.actor] # NoActor
  /\ forwardList[lastCall.actor] # <<>>
  /\ NoForwardEntry(lastCall.actor, lastCall.topic)
  /\ lastCall.topic \notin definition(lastCall.actor)
  /\ lastCall.result.ok
  /\ lastCall.result.by = parentOf(lastCall.actor)

-----------------------------------------------------------------------------
(* Properties of the forked proxy.                                         *)

\* C2: the state of an actor never returns from destroying or destroyed to
\* ready or new, and destroyed is terminal, whatever the interleaving of
\* initialize() and destroy().
StateMovesForward ==
  [][/\ proxyState \in {"destroying", "destroyed"} => proxyState' \notin {"new", "ready"}
     /\ proxyState = "destroyed" => proxyState' = "destroyed"]_vars

\* The deadline of a request has passed / has passed or is reached.
DeadlinePassed(msgId) ==
  \E j \in 1..Len(timeouts) : timeouts[j].msgId = msgId /\ timeouts[j].timeout < now
DeadlineReached(msgId) ==
  \E j \in 1..Len(timeouts) : timeouts[j].msgId = msgId /\ timeouts[j].timeout <= now

\* Whether the step handles, on the proxy, a response to a timed-out request.
LateResponse ==
  /\ busListener /\ busListener' /\ toProxy # <<>> /\ toProxy' = Tail(toProxy)
  /\ \E i \in 1..Len(calls) :
       calls[i].msgId = Head(toProxy).id /\ calls[i].error = ErrTimedOut

\* C6 (as claimed): a request with a timeout whose deadline has passed before
\* its response arrived is rejected with 'Response timed out.': from then on it
\* is settled by nothing else.
DeadlineRejects ==
  [][\A i \in 1..Len(calls) :
       (calls[i].status = "pending" /\ DeadlinePassed(calls[i].msgId))
         => (calls'[i].status = "pending" \/ calls'[i].error = ErrTimedOut)]_vars

\* C6 (amended): a run of the timeout worker rejects every request that is
\* still pending and whose deadline is reached with 'Response timed out.' and
\* deletes its pending entry; a timed-out request stays so, and a response to it
\* arriving later settles no promise, changes no pending entry and sends
\* nothing to the peer.
TimeoutWorkerRejects ==
  [][/\ Len(timeouts') < Len(timeouts) =>
          \A i \in 1..Len(calls) :
            (calls[i].status = "pending" /\ DeadlineReached(calls[i].msgId))
              => /\ calls'[i].status = "rejected" /\ calls'[i].error = ErrTimedOut
                 /\ calls[i].msgId \notin responsePromises'
     /\ \A i \in 1..Len(calls) : calls[i].error = ErrTimedOut => calls'[i] = calls[i]
     /\ LateResponse => /\ calls' = calls
                        /\ responsePromises' = responsePromises
                        /\ toPeer' = toPeer]_vars

\* A request has timed out, and the response the peer sent for it has reached
\* the proxy afterwards.
TimedOutAndAnsweredLate ==
  /\ peerAlive /\ busListener
  /\ toPeer = <<>> /\ toProxy = <<>>
  /\ \E i \in 1..Len(calls) : calls[i].error = ErrTimedOut

\* C7: a sendAndReceive through the forked proxy, for a topic with a handler
\* and a list of serializable arguments, yields the result of the same
\* sendAndReceive made directly on the wrapped in-memory actor.
ModeParity ==
  \A i \in 1..Len(calls) :
    (calls[i].receive /\ calls[i].msgId # 0 /\ calls[i].status # "pending"
       /\ calls[i].topic \in definition(ProxyActor))
      => /\ calls[i].status = "resolved"
         /\ calls[i].value =
              InMemorySend0(ProxyActor, calls[i].topic, calls[i].message, TRUE).value

\* C30: for every argument list given by the sender (none, one or several
\* arguments, a single array, a single falsy argument), the list that
\* _decodeMessageBody reconstructs from the envelope body built by
\* _sendActorMessage equals the list given, in number, order and values; and
\* marshalledType is a scalar for one argument and an array otherwise.
ArgumentRoundTrip ==
  \A k \in 1..Len(toPeer) : \A i \in 1..Len(calls) :
    (toPeer[k].type = "actor-message" /\ calls[i].msgId = toPeer[k].id) =>
      LET body == toPeer[k].body
          decoded == _decodeMessageBody(body)
      IN /\ body = _sendActorMessage(calls[i].topic, calls[i].message, calls[i].receive)
         /\ (body.marshalledType = "array") <=> (Len(calls[i].message) # 1)
         /\ decoded.ok
         /\ decoded.message = calls[i].message

\* The last call made on the proxy, if the step makes one.
CallMade == Len(calls') > Len(calls)
LastCall == calls'[Len(calls')]

NoPendingAfterExit ==
  ~peerAlive => \A i \in 1..Len(calls) : calls[i].status # "pending"

\* C20: a request sent with receive = false never causes a response: no
\* actor-response in flight to the proxy bears the id of such a request.
NoResponseToSend ==
  \A k \in 1..Len(toProxy) : \A i \in 1..Len(calls) :
    (calls[i].msgId # 0 /\ calls[i].msgId = toProxy[k].id /\ toProxy[k].type = "actor-response")
      => calls[i].receive

\* C11: when a handler raises an error, a send of its topic completes
\* successfully for the caller and nothing comes back, while a sendAndReceive
\* of its topic is answered by an actor-response carrying the handler's error
\* message, and the caller is rejected with that message.
HandlerErrorSurfaces ==
  \A i \in 1..Len(calls) :
    (calls[i].msgId # 0 /\ HandlerError(ProxyActor, calls[i].topic) # None)
      => /\ ~calls[i].receive => calls[i].status = "resolved"
         /\ \A k \in 1..Len(toProxy) :
              toProxy[k].id = calls[i].msgId
                => /\ calls[i].receive
                   /\ toProxy[k].body.error = HandlerError(ProxyActor, calls[i].topic)
         /\ (calls[i].receive /\ calls[i].status # "pending")
              => /\ calls[i].status = "rejected"
                 /\ calls[i].error = HandlerError(ProxyActor, calls[i].topic)

\* C17: of two calls made one after the other on the proxy, the envelope of
\* the first is handed to the bus before the envelope of the second: the
\* second has no id while the first is being marshalled, and the ids (given in
\* the order of the hand-over) follow the order of the calls.
EnvelopesInCallOrder ==
  \A i, j \in 1..Len(calls) :
    (i < j /\ calls[j].msgId # 0 /\ (calls[i].status = "marshalling" \/ calls[i].msgId # 0))
      => calls[i].msgId # 0 /\ calls[i].msgId < calls[j].msgId

\* The requests of an endpoint that are outstanding: sent with receive and not
\* yet answered.
Outstanding(cs) == {i \in 1..Len(cs) : cs[i].receive /\ cs[i].status = "pending"}

\* No two outstanding requests of one endpoint share an id.
UniqueIds(cs) ==
  \A i, j \in Outstanding(cs) : i # j => cs[i].msgId # cs[j].msgId

\* C18 (as claimed): on the bus no two outstanding requests share an id,
\* counting the requests of the proxy and those of the peer.
CorrelationIdsUniqueOnBus ==
  /\ UniqueIds(calls)
  /\ UniqueIds(peerCalls)
  /\ \A i \in Outstanding(calls), j \in Outstanding(peerCalls) :
       calls[i].msgId # peerCalls[j].msgId

\* C18 (amended): no two outstanding requests that one endpoint originated
\* share an id, and each has its own entry in that endpoint's pending responses.
CorrelationIdsUniquePerEndpoint ==
  /\ UniqueIds(calls)
  /\ UniqueIds(peerCalls)
  /\ \A i \in Outstanding(calls) : calls[i].msgId \in responsePromises
  /\ \A j \in Outstanding(peerCalls) : peerCalls[j].msgId \in peerResponsePromises

\* The proxy has two requests outstanding and the peer has one.
BothEndpointsAwait ==
  /\ Cardinality(Outstanding(calls)) = 2
  /\ Cardinality(Outstanding(peerCalls)) = 1

\* How often x occurs in a sequence.
Count(seq, x) == Cardinality({k \in 1..Len(seq) : seq[k] = x})

\* Whether the request of call i has reached the peer's dispatcher.
Dispatched(i) ==
  /\ calls[i].msgId # 0
  /\ \A k \in 1..Len(toPeer) :
       toPeer[k].type = "actor-message" => toPeer[k].id # calls[i].msgId

\* Whether the step handles an actor-response on the proxy.
ResponseHandled ==
  /\ busListener /\ toProxy # <<>> /\ Head(toProxy).type = "actor-response"
  /\ toProxy' = Tail(toProxy)

\* C19: a request with receive that has reached the peer's dispatcher is
\* answered by exactly one actor-response with its id, sent once the handler's
\* (possibly deferred) result is there and not before; the response carries the
\* result or the error, and handling it settles the call with that id as the
\* response says and changes no other call.
ExactlyOneResponse ==
  [][/\ \A i \in 1..Len(calls') :
          (calls'[i].receive /\ calls'[i].msgId # 0)
            => Count(responded', calls'[i].msgId) =
                 IF Dispatched(i)' /\ \A r \in peerHandling' : r.id # calls'[i].msgId
                 THEN 1 ELSE 0
     /\ ResponseHandled =>
          \A i \in 1..Len(calls) :
            IF calls[i].msgId = Head(toProxy).id /\ calls[i].status = "pending"
            THEN IF HasError(Head(toProxy).body)
                 THEN calls'[i].status = "rejected" /\ calls'[i].error = Head(toProxy).body.error
                 ELSE calls'[i].status = "resolved"
                      /\ calls'[i].value = Head(toProxy).body.response
            ELSE calls'[i] = calls[i]]_vars

\* A request whose handler defers its result was answered after the request
\* made after it, and both callers got their own answers.
DeferredAnsweredLast ==
  /\ Len(calls) = 2
  /\ calls[1].topic = "later" /\ calls[1].status = "resolved"
  /\ calls[1].value = HandlerReturn(ProxyActor, "later", <<Num(2)>>)
  /\ calls[2].status = "rejected" /\ calls[2].error = "Sorry!"
  /\ responded = <<calls[2].msgId, calls[1].msgId>>

\* Whether the step settles the forwardToChild call under way.
ForwardCallSettles == forwardCall.status = "pending" /\ forwardCall'.status # "pending"

\* C14: forwardToChild(child, topics...) pushes one (topic, child) entry per
\* topic, in the order of the arguments, when child is among the actor's
\* children; when it is not, it fails and leaves the forward list unchanged.
ForwardToChildChecksChild ==
  [][ForwardCallSettles =>
       LET a == forwardCall.actor
           entries == [i \in 1..Len(forwardCall.topics) |->
                         <<forwardCall.topics[i], forwardCall.child>>] IN
       IF forwardCall.child \in Range(childPromises[a])
       THEN /\ forwardCall'.status = "resolved"
            /\ forwardList' = [forwardList EXCEPT ![a] = @ \o entries]
       ELSE /\ forwardCall'.status = "rejected"
            /\ forwardList' = forwardList]_vars

\* Whether d is a descendant of a linked to it through the child registry:
\* created, not destroyed, and below actors that are not destroyed either.
RECURSIVE IsLinkedDescendant(_, _)
IsLinkedDescendant(d, a) ==
  /\ d # Root
  /\ childPromise[d] = "resolved"
  /\ state[d] # "destroyed"
  /\ parentOf(d) = a \/ IsLinkedDescendant(parentOf(d), a)

\* C16 (as claimed): tree() of an actor contains, besides the actor, exactly
\* its descendants that are not destroyed, each with its id.
TreeHoldsLiveDescendants ==
  \A a \in Actors :
    (state[a] # "none" /\ ChildrenResolved(a))
      => TreeIds(tree(a)) = {a} \cup {d \in Actors : IsDescendant(d, a) /\ state[d] # "destroyed"}

\* C16 (amended): tree() of an actor contains, besides the actor, exactly its
\* descendants that are not destroyed and lie below actors that are not
\* destroyed: no destroyed actor, no actor whose creation failed, and every
\* such descendant, once under its parent.
TreeHoldsLinkedDescendants ==
  \A a \in Actors :
    (state[a] # "none" /\ ChildrenResolved(a))
      => /\ TreeIds(tree(a)) = {a} \cup {d \in Actors : IsLinkedDescendant(d, a)}
         /\ \A d \in Actors : state[d] = "destroyed" /\ d # a => d \notin TreeIds(tree(a))
         /\ \A d \in Actors : childPromise[d] = "rejected" /\ d # a => d \notin TreeIds(tree(a))
         /\ \A k \in 1..Len(tree(a).children) : parentOf(tree(a).children[k].id) = a

\* A child has been destroyed while its sibling lives: the tree of the parent
\* holds the parent and the sibling.
SiblingLeftInTree ==
  \E a, c, d \in Actors :
    /\ c # d /\ c # Root /\ d # Root /\ parentOf(c) = a /\ parentOf(d) = a
    /\ state[c] = "destroyed" /\ state[d] = "ready" /\ state[a] = "ready"
    /\ TreeIds(tree(a)) = {a, d}

\* The children of an actor that were created and are not destroyed.
LiveChildren(a) ==
  {c \in Actors : c # Root /\ parentOf(c) = a /\ childPromise[c] = "resolved"
                  /\ state[c] # "destroyed"}

\* The keys of metrics() that are not keys of the own metric map.
ChildKeys(a) == DOMAIN metrics(a) \ DOMAIN metrics0(a)

\* C15 (as claimed): metrics() of an actor holds its own metric map and one
\* entry per child that is not destroyed, under the child's name, with that
\* child's metrics(); no entry is there for a destroyed child.
MetricsEntryPerChild ==
  \A a \in Actors :
    (state[a] # "none" /\ ChildrenResolved(a))
      => /\ \A key \in DOMAIN metrics0(a) : metrics(a)[key] = metrics0(a)[key]
         /\ \A c \in LiveChildren(a) :
              name[c] \in DOMAIN metrics(a) /\ metrics(a)[name[c]] = metrics(c)
         /\ Cardinality(ChildKeys(a)) = Cardinality(LiveChildren(a))

\* The last of the actor's children, in the order of their creation, that
\* bears the name.
LastNamed(a, n) ==
  LET ks == {k \in 1..Len(_children(a)) : name[_children(a)[k]] = n}
  IN _children(a)[CHOOSE k \in ks : \A j \in ks : j <= k]

\* C15 (amended): metrics() of an actor holds its own metric map and one entry
\* per name borne by its children that are not destroyed, with the metrics() of
\* the last created of the children of that name; no entry holds the metrics
\* of a destroyed child.
MetricsEntryPerName ==
  \A a \in Actors :
    (state[a] # "none" /\ ChildrenResolved(a))
      => /\ Range(_children(a)) = LiveChildren(a)
         /\ \A key \in DOMAIN metrics0(a) : metrics(a)[key] = metrics0(a)[key]
         /\ ChildKeys(a) = {name[c] : c \in LiveChildren(a)}
         /\ \A n \in ChildKeys(a) :
              /\ LastNamed(a, n) \in LiveChildren(a)
              /\ metrics(a)[n] = metrics(LastNamed(a, n))

\* Two children of one actor bear the same name and a third actor, once their
\* sibling or parent, has been destroyed: the metrics of the parent hold one
\* entry for the two.
SameNameChildren ==
  \E a, c, d \in Actors :
    /\ c < d /\ {c, d} \subseteq LiveChildren(a) /\ name[c] = name[d]
    /\ state[a] # "none" /\ ChildrenResolved(a)
    /\ Cardinality(ChildKeys(a)) = 1
    /\ metrics(a)[name[c]] # metrics(c) \/ metrics(a)[name[d]] # metrics(d)

\* The states in which createChild is refused.
RefusingStates == {"destroying", "destroyed", "crashed"}

\* C21: a createChild call succeeds only on an actor in state new or ready; on
\* an actor in state destroying, destroyed or crashed it fails with the
\* not-ready error of that state, no actor is constructed and the child set
\* stays as it was.
CreateChildOnlyNewOrReady ==
  [][\A a \in Actors :
       (lastCreate' # lastCreate /\ lastCreate'.actor = a)
         => /\ lastCreate'.error = None => state[a] \in {"new", "ready"}
            /\ state[a] \in RefusingStates
                 => /\ lastCreate'.error =
                         (IF state[a] = "crashed" THEN ErrCrashed ELSE ErrDestroyCalled)
                    /\ lastCreate'.child = NoActor
                    /\ state' = state
                    /\ childPromises' = childPromises
                    /\ childPromise' = childPromise]_vars

\* createChild has been refused on a destroying actor that has a child.
CreateChildRefused ==
  /\ lastCreate.actor # NoActor
  /\ lastCreate.error = ErrDestroyCalled
  /\ state[lastCreate.actor] = "destroying"
  /\ childPromises[lastCreate.actor] # <<>>

\* The children over which the destroy of the actor maps, and those of them
\* whose own destroy has failed.
DestroyedChildren(a) == Range(destroyMap[a])
FailedChildren(a) == {c \in DestroyedChildren(a) : destroyPromise[c] = "rejected"}

\* C22: when the destroy of a child fails during the destroy of its parent, the
\* destroy of the parent goes on: it is rejected only by the parent's own
\* destroy step, which runs once the destroy of every child has settled, and
\* an own step that completes brings the parent to destroyed with a resolved
\* promise.
ChildDestroyFailureTolerated ==
  \A a \in Actors :
    FailedChildren(a) # {}
      => /\ destroyPromise[a] = "rejected" => a \in Range(destroyList)
         /\ a \in Range(destroyList)
              => \A c \in DestroyedChildren(a) :
                   destroyPromise[c] \in {"resolved", "rejected"}
         /\ destroyStep[a] = "done"
              => state[a] = "destroyed" /\ destroyPromise[a] = "resolved"

\* Whether the step emits the destroyed event of the actor.
EmitsDestroyed(a) == state[a] # "destroyed" /\ state'[a] = "destroyed"

\* Whether the destroy of the actor runs at most once: its own destroy step
\* fires at most once and a destroyed actor stays destroyed, so that its
\* destroyed event is not emitted again.
DestroyRunsOnce(a) ==
  /\ Count(destroyList', a) <= 1
  /\ state[a] = "destroyed" => state'[a] = "destroyed"

MapIndex(a, c) == CHOOSE k \in 1..Len(destroyMap[a]) : destroyMap[a][k] = c

\* C24 (as claimed): destroy() destroys the children in reverse insertion
\* order: the destroy of a child is started only after the destroy of every
\* child inserted after it has completed.
ChildrenDestroyedInReverse ==
  \A a \in Actors : \A c, d \in DestroyedChildren(a) :
    (MapIndex(a, c) < MapIndex(a, d) /\ c \in destroyMapped[a])
      => destroyPromise[d] \in {"resolved", "rejected"}

\* C24 (amended): destroy() starts the destroy of its children together, that
\* of every child whose creation promise has resolved, not waiting for the
\* destroy of a sibling; the own destroy step runs after the destroy of every
\* child has settled.
ChildrenDestroyedTogether ==
  [][\A a \in Actors :
       /\ destroyMapped'[a] # destroyMapped[a]
            => /\ destroyMapped'[a] =
                    {c \in DestroyedChildren(a) : childPromise[c] = "resolved"}
               /\ \A c \in destroyMapped'[a] : destroyPromise'[c] # "unset"
       /\ a \in Range(destroyList')
            => \A c \in DestroyedChildren(a) :
                 destroyPromise'[c] \in {"resolved", "rejected"}]_vars

\* The destroy hooks of two siblings have fired in the order of their
\* insertion during the destroy of their parent.
SiblingHooksInInsertionOrder ==
  \E a \in Actors : \E c, d \in DestroyedChildren(a) : \E i, j \in 1..Len(destroyList) :
    /\ {c, d} \subseteq destroyMapped[a]
    /\ MapIndex(a, c) < MapIndex(a, d)
    /\ destroyList[i] = c /\ destroyList[j] = d /\ i < j
    /\ state[a] = "destroyed"

\* The options of the observed call with the configuration merged under them,
\* its host list H and its cluster size n.
TopOptions == Extend(config, remoteOptions)
HostList == clusterDef(TopOptions).list
ClusterSizeOf == IF TopOptions.clusterSize # 0 THEN TopOptions.clusterSize ELSE Len(HostList)
\* Whether the observed call is one for a cluster that is defined.
Clustered ==
  /\ TopOptions.cluster # "" => TopOptions.cluster \in DOMAIN clusters
  /\ TopOptions.host # NoHost \/ TopOptions.cluster # ""
  /\ clusterDef(TopOptions).defined
\* The port of an entry of the host list.
PortOf(hostPort) == IF hostPort.port = "" THEN 6161 ELSE parseInt(hostPort.port)
\* The number of children constructed on an entry of the host list.
ChildrenOn(hostPort) ==
  Cardinality({k \in 2..Len(remoteActors) :
                 remoteActors[k].host = hostPort.host /\ remoteActors[k].port = PortOf(hostPort)})

\* C25: a remote actor with host list H and cluster size n becomes one balancer
\* with exactly n children, the i-th (from 0) a remote actor on H[i mod |H|]
\* with the port of the entry or 6161, with clusterSize 1; the numbers of
\* children on two entries of H differ by at most 1.
ClusterRoundRobin ==
  Clustered
    => /\ remoteActors # <<>> => remoteActors[1].kind = "balancer"
       /\ Len(remoteActors) <= ClusterSizeOf + 1
       /\ \A k \in 2..Len(remoteActors) :
            LET hostPort == HostList[((k - 2) % Len(HostList)) + 1] IN
            /\ remoteActors[k].kind = "remote"
            /\ remoteActors[k].parent = 1 /\ remoteActors[k].idx = k - 2
            /\ remoteActors[k].host = hostPort.host
            /\ remoteActors[k].port = PortOf(hostPort)
            /\ remoteActors[k].clusterSize = 1
       /\ (createActorCalls = <<>> /\ remoteActors # <<>>)
            => /\ Len(remoteActors) = ClusterSizeOf + 1
               /\ \A i, j \in 1..Len(HostList) :
                    ChildrenOn(HostList[i]) - ChildrenOn(HostList[j]) <= 1

\* Whether resource s is among the dependencies, direct or not, of resource r.
RECURSIVE ReachesWithin(_, _, _)
ReachesWithin(r, s, steps) ==
  /\ steps > 0
  /\ \E k \in 1..Len(inject[r]) :
       inject[r][k] = s \/ ReachesWithin(inject[r][k], s, steps - 1)
Reaches(r, s) == ReachesWithin(r, s, MaxResource)
\* Whether the initialization of resource r reaches a dependency cycle.
ReachesCycle(r) == \E s \in Resources : (r = s \/ Reaches(r, s)) /\ Reaches(s, s)

\* Whether the path of a cyclic-dependency error follows the inject lists and
\* ends in a resource that is already on it.
IsCyclePath(path) ==
  /\ Len(path) >= 2
  /\ \A k \in 1..(Len(path) - 1) : _contains(inject[path[k]], path[k + 1])
  /\ \E k \in 1..(Len(path) - 1) : path[k] = path[Len(path)]

\* Whether no callback and no settlement of a resource promise is left to run.
ResourcesQuiet ==
  \A r \in Resources :
    /\ resourceDefPromises[r].status # "called"
    /\ resourceDefPromises[r].status = "waiting"
         => /\ \E k \in 1..Len(inject[r]) :
                 resourceDefPromises[inject[r][k]].status # "resolved"
            /\ \A k \in 1..Len(inject[r]) :
                 resourceDefPromises[inject[r][k]].status # "rejected"

\* C26: the initialization of a resource that reaches a dependency cycle fails
\* with a cyclic-dependency error that names the path, however the resources
\* are requested together: it never succeeds, and it is not left waiting once
\* nothing is left to run.
CyclicDependencyFails ==
  \A r \in requested :
    ReachesCycle(r)
      => /\ resourceDefPromises[r].status # "resolved"
         /\ resourceDefPromises[r].status = "rejected"
              => IsCyclePath(resourceDefPromises[r].error)
         /\ ResourcesQuiet => resourceDefPromises[r].status = "rejected"

-----------------------------------------------------------------------------
(* The control envelopes and the destroy handshake: properties.            *)

\* The steps of a destroy handshake that completes.
HandshakeSteps ==
  <<"destroy-actor", "destroyed", "actor-destroyed", "waiter settled", "ack sent",
    "actor-destroyed-ack", "system.destroy">>

\* The destroy-actor request of the proxy (a sequence of at most one waiter).
DestroyRequests == SelectSeq(requests, LAMBDA r : r.type = "destroy-actor")

\* C31: the steps of the destroy handshake occur only in this order: the peer
\* receives destroy-actor, its wrapped actor completes its destroy, the peer
\* sends actor-destroyed with the id of the request, the proxy settles the
\* waiter of that id and sends actor-destroyed-ack, the peer removes its
\* message listener and destroys its system.  The system of the peer is not
\* destroyed before the ack is received, and the peer processes no envelope
\* after it.
HandshakeInOrder ==
  [][/\ \/ IsPrefix(handshake', HandshakeSteps)
        \/ handshake' = <<"destroy-actor", "destroy failed">>
     /\ peerSystem' = "destroying" => handshake' = HandshakeSteps /\ ~peerListener'
     /\ \A k \in 1..Len(toProxy') :
          toProxy'[k].type = "actor-destroyed"
            => /\ DestroyRequests' # <<>>
               /\ toProxy'[k].id = DestroyRequests'[1].msgId
               /\ wrappedDestroy' = "resolved"
     /\ Len(handshake') >= 4 => DestroyRequests'[1].status = "resolved"
     /\ ~peerListener => ~(toPeer # <<>> /\ peerAlive' /\ toPeer' = Tail(toPeer))]_vars

\* C31 (witness): the handshake has completed: the proxy is destroyed and the
\* peer, its system destroyed after the ack, has exited.
HandshakeCompleted ==
  /\ handshake = HandshakeSteps
  /\ proxyState = "destroyed"
  /\ peerSystem = "destroying"
  /\ ~peerAlive

\* How many replies with the id the peer has handed to the bus.
Replies(id) == Cardinality({k \in 1..Len(responded) : responded[k] = id})

\* Whether the peer has received the envelope of a control request, and
\* whether the operation it asks for is still running.
RequestReceived(r) ==
  /\ r.error # ErrChannelClosed
  /\ \A k \in 1..Len(toPeer) : toPeer[k].id # r.msgId
OperationRunning(r) ==
  \/ [type |-> r.type, id |-> r.msgId] \in peerOperations
  \/ r.type = "destroy-actor" /\ wrappedDestroy = "pending"

\* C32: every actor-tree, actor-metrics, destroy-actor and parent-ping envelope
\* the peer has received is answered by exactly one reply envelope with its
\* id: never by more than one, and by one as soon as the operation it asks for
\* has ended, also when that operation has failed.
ControlRequestsAnswered ==
  (peerAlive /\ peerListener) =>
    \A k \in 1..Len(requests) :
      RequestReceived(requests[k])
        => /\ Replies(requests[k].msgId) <= 1
           /\ ~OperationRunning(requests[k]) => Replies(requests[k].msgId) = 1

(***************************************************************************)
(* The listener of a forked endpoint: dispatch by actor id                 *)
(***************************************************************************)

\* A step of the listener of the proxy: it takes the head of its bus.
ListenerStep == toProxy # <<>> /\ toProxy' = Tail(toProxy)

\* Whether an envelope is the error response to an actor-message with another
\* actor's id: it carries the id of the message and the error text.
TargetErrorResponse(response, msg) ==
  /\ response.type = "actor-response"
  /\ response.id = msg.id
  /\ HasError(response.body)
  /\ response.body.error = TargetError

\* An actor-message with an id goes to the actor its actorId names, the
\* wrapped actor or the parent, and one with any other actorId is answered by
\* the error response, no handler being invoked.
ActorMessageDispatched ==
  LET msg == Head(toProxy) IN
  (msg.type = "actor-message" /\ msg.id # 0) =>
    IF msg.actorId \in {ProxyActor, parentOf(ProxyActor)}
    THEN dispatches' = Append(dispatches, msg.actorId)
    ELSE /\ dispatches' = dispatches
         /\ Len(toPeer') = Len(toPeer) + 1
         /\ SubSeq(toPeer', 1, Len(toPeer)) = toPeer
         /\ TargetErrorResponse(toPeer'[Len(toPeer')], msg)

\* An envelope the listener drops: no id, or another type with another id.
Dropped(msg) ==
  \/ msg.id = 0
  \/ msg.type # "actor-message" /\ msg.actorId # ProxyActor

\* What a dropped envelope leaves alone besides the timestamp.
DroppedLeaves ==
  /\ UNCHANGED <<proxyState, initializePromise, proxyDestroy, listening, busListener,
                 peerAlive, idCounter, responsePromises, timeouts, toPeer, calls>>
  /\ UNCHANGED <<requests, timeoutWorkerInterval, handshake, dispatches>>
  /\ UNCHANGED <<treeVars, moreTreeVars>>

TimeoutsSorted ==
  \A i \in 1..Len(timeouts) : \A j \in i..Len(timeouts) :
    timeouts[i].timeout <= timeouts[j].timeout

\* Whether the request has an entry with a deadline up to the time.
HasDeadlineUpTo(msgId, time) ==
  \E j \in 1..Len(timeouts) : timeouts[j].msgId = msgId /\ timeouts[j].timeout <= time

\* The entries with a later deadline, in their order.
RECURSIVE LaterEntries(_, _)
LaterEntries(array, time) ==
  IF array = <<>> THEN <<>>
  ELSE IF array[1].timeout > time THEN <<array[1]>> \o LaterEntries(Tail(array), time)
  ELSE LaterEntries(Tail(array), time)

\* A poll of the timeout worker: entries leave the list and no time passes.
Poll == Len(timeouts') < Len(timeouts) /\ now' = now

\* C34: the timeouts are kept sorted by deadline, and a poll of the timeout
\* worker fails exactly the waiters that are still pending and whose deadline
\* is at most the time of the poll: it removes every entry with such a deadline
\* and no other, it fails no waiter with a later deadline, and a waiter that
\* was answered before is not failed by its stale entry.
PollFailsExactlyElapsed ==
  /\ []TimeoutsSorted
  /\ [][Poll =>
         /\ timeouts' = LaterEntries(timeouts, now)
         /\ \A i \in 1..Len(calls) :
              LET due == /\ calls[i].status = "pending"
                         /\ calls[i].msgId \in responsePromises
                         /\ HasDeadlineUpTo(calls[i].msgId, now) IN
              IF due
              THEN /\ calls'[i].status = "rejected"
                   /\ calls'[i].error = ErrTimedOut
                   /\ calls[i].msgId \notin responsePromises'
              ELSE calls'[i] = calls[i]
         /\ responsePromises' \subseteq responsePromises
         /\ \A id \in responsePromises \ responsePromises' : HasDeadlineUpTo(id, now)]_vars

\* A poll has removed the stale entry of a request that was answered in time
\* and has failed the other request.
AnsweredKeptAndOtherFailed ==
  /\ Len(calls) = 2
  /\ timeouts = <<>>
  /\ \E i, j \in 1..2 :
       /\ calls[i].status = "resolved" /\ calls[i].receive /\ calls[i].timeout > 0
       /\ calls[j].status = "rejected" /\ calls[j].error = ErrTimedOut

(***************************************************************************)
(* The listening server: one reply for every create-actor                  *)
(***************************************************************************)

\* C35: every create-actor envelope on a control connection gets exactly one
\* reply, the worker's first message or an error, and the socket is then
\* closed; the response is written before the socket is ended and the worker
\* disconnected and detached; an envelope of another type forks no worker and
\* gets no reply; several calls of listen() create a single server.
OneReplyThenClosed ==
  /\ netServers <= 1
  /\ \A s \in 1..Len(sockets) :
       IF sockets[s].type = "create-actor"
       THEN /\ Len(sockets[s].written) <= 1
            /\ sockets[s].written # <<>> => sockets[s].ended
            /\ sockets[s].ended =>
                 sockets[s].steps = <<"write", "end", "disconnect", "unref">>
       ELSE sockets[s].worker = "none" /\ sockets[s].written = <<>>

(***************************************************************************)
(* A child whose initialize fails                                          *)
(***************************************************************************)

\* The actors whose metrics are in the metric map of an actor.
MetricsOf(a) ==
  {c \in Actors : \E k \in DOMAIN metrics(a) :
     /\ "childMetric" \in DOMAIN metrics(a)[k]
     /\ metrics(a)[k].childMetric = [value |-> 111 * c]}

\* The children whose creation has failed.
FailedCreations == {c \in Actors : childPromise[c] = "rejected"}

\* C36: when the initialize of a child fails, the promise of createChild is
\* rejected with that error and the child leaves the children of its parent:
\* it is in no later tree(), metrics() or destroy of the parent; and the
\* creation of a parent whose initialize awaits the createChild fails with the
\* same error.
FailedChildIsRemoved ==
  /\ [](\A c \in FailedCreations :
          /\ childError[c] \in HookErrors
          /\ c \notin Range(_children(parentOf(c)))
          /\ c \notin TreeIds(tree(parentOf(c)))
          /\ c \notin MetricsOf(parentOf(c))
          /\ \A p \in Actors :
               (InitializeAwaits(p) = c /\ state[p] # "none")
                 => /\ childPromise[p] \in {"pending", "rejected"}
                    /\ childPromise[p] = "rejected" => childError[p] = childError[c])
  /\ [][\A a \in Actors :
          (destroyPromise[a] = "unset" /\ destroyPromise'[a] # "unset")
            => Range(destroyMap'[a]) \cap FailedCreations = {}]_vars
  /\ [][\A c \in Actors :
          (childPromise[c] = "pending" /\ childPromise'[c] = "rejected")
            => /\ childError'[c] \in HookErrors
               /\ childError[c] = None]_vars

\* The creation of the parent has failed with the error of the child it
\* awaited, and the grandparent, with another child, has been destroyed since.
ParentFailedWithChildError ==
  LET p == 1
      c == InitializeAwaits(1) IN
  /\ c # NoActor
  /\ childPromise[c] = "rejected"
  /\ childPromise[p] = "rejected"
  /\ childError[p] = ErrNotInitialized
  /\ state[parentOf(p)] = "destroyed"
  /\ \E o \in Actors : o # p /\ parentOf(o) = parentOf(p) /\ state[o] = "destroyed"

(***************************************************************************)
(* The requests of a proxy whose destroy handshake has completed           *)
(***************************************************************************)

\* C37: once the destroy handshake of the proxy has completed (actor-destroyed
\* received, the timeout worker stopped), no request is pending on it: every
\* sendAndReceive, with or without a timeout, has been settled with a response
\* or an error.
NoRequestPendingAfterHandshake ==
  ~timeoutWorkerInterval =>
     /\ responsePromises = {}
     /\ \A i \in 1..Len(calls) : calls[i].status # "pending"

(***************************************************************************)
(* The ids of an endpoint and the settling of its waiters                  *)
(***************************************************************************)

\* The calls of an endpoint whose envelope got an id, in the order of the calls.
Originated(cs) == SelectSeq(cs, LAMBDA c : c.msgId # 0)

\* The ids of the envelopes an endpoint originated are 1, 2, 3, ... in the
\* order of their sending, and its counter is the next one.
IdsCountFromOne(cs, counter) ==
  /\ \A k \in 1..Len(Originated(cs)) : Originated(cs)[k].msgId = k
  /\ counter = Len(Originated(cs)) + 1

\* A step in which the proxy answers a request of the peer.
ProxyAnswers ==
  /\ toProxy # <<>> /\ Head(toProxy).type = "actor-message"
  /\ toProxy' = Tail(toProxy)

\* C38: the ids an endpoint gives to the envelopes it originates strictly
\* increase from 1; a reply bears the id of its request, consumes no counter
\* value and registers no waiter; a pending entry is never overwritten by a
\* later request; and a waiter is settled at most once, by its response or by
\* its timeout.
IdsIncreaseAndWaitersSettleOnce ==
  /\ [](IdsCountFromOne(calls, idCounter) /\ IdsCountFromOne(peerCalls, peerIdCounter))
  /\ [][ProxyAnswers =>
          /\ idCounter' = idCounter
          /\ responsePromises' = responsePromises
          /\ timeouts' = timeouts
          /\ Len(toPeer') = Len(toPeer) + 1
          /\ toPeer'[Len(toPeer')].type = "actor-response"
          /\ toPeer'[Len(toPeer')].id = Head(toProxy).id]_vars
  /\ [][/\ \A id \in responsePromises' \ responsePromises :
             id = idCounter /\ idCounter' = id + 1
        /\ idCounter' # idCounter => idCounter \notin responsePromises]_vars
  /\ [][\A i \in 1..Len(calls) :
          calls[i].status \in {"resolved", "rejected"} => calls'[i] = calls[i]]_vars
  /\ [][\A i \in 1..Len(peerCalls) :
          peerCalls[i].status \in {"resolved", "rejected"} => peerCalls'[i] = peerCalls[i]]_vars

\* The proxy has answered the request of the peer with the peer's id 1 while
\* its own request 1 was answered and its request 2 timed out.
AnsweredWithForeignId ==
  /\ Len(calls) = 2
  /\ calls[1].msgId = 1 /\ calls[1].receive /\ calls[1].status = "resolved"
  /\ calls[2].msgId = 2 /\ calls[2].error = ErrTimedOut
  /\ Len(peerCalls) = 1
  /\ peerCalls[1].msgId = 1 /\ peerCalls[1].status = "resolved"
  /\ idCounter = 3

(***************************************************************************)
(* The resources of a system are made once                                 *)
(***************************************************************************)

\* The progress of a promise of resourceDefPromises.
PromiseRank(status) ==
  CASE status = "unset" -> 0
    [] status = "called" -> 1
    [] status = "waiting" -> 2
    [] OTHER -> 3

\* C39: every resource definition is instantiated and initialized at most
\* once, whatever the injection requests that name it, directly or as a
\* dependency; the requesters all obtain the one promise of the resource, which
\* is never replaced, and so the same instance.
ResourceMadeOnce ==
  /\ [](\A r \in Resources :
          /\ instantiated[r] <= 1
          /\ instantiated[r] = 1 <=> resourceDefPromises[r].status = "resolved")
  /\ [][\A r \in Resources :
          /\ PromiseRank(resourceDefPromises'[r].status)
               >= PromiseRank(resourceDefPromises[r].status)
          /\ resourceDefPromises[r].status # "unset"
               => resourceDefPromises'[r].depPath = resourceDefPromises[r].depPath
          /\ resourceDefPromises[r].status \in {"resolved", "rejected"}
               => resourceDefPromises'[r] = resourceDefPromises[r]]_vars

\* A resource was requested by name after it had been made as the dependency
\* of another resource, and both are made.
RequestedTwiceMadeOnce ==
  \E r, d \in Resources :
    /\ r # d
    /\ _contains(inject[r], d)
    /\ resourceDefPromises[d].depPath = <<r, d>>
    /\ {r, d} \subseteq requested
    /\ instantiated[r] = 1 /\ instantiated[d] = 1

(***************************************************************************)
(* The listeners registered through ForkedActorProxy.once                  *)
(***************************************************************************)

\* C40: a listener registered through ForkedActorProxy.once(event, listener)
\* is invoked at most once, however often the wrapped actor emits the event.
ProxyOnceInvokedAtMostOnce ==
  \A k \in 1..Len(listeners) :
    listeners[k].through = "ForkedActorProxy.once" => invocations[k] <= 1

====
